---- MODULE Spec2Model ----
(***************************************************************************)
(* bareduckdb: host-side data integration layer.                           *)
(*                                                                         *)
(* One connection (ConnectionAPI on top of ConnectionBase), its registry   *)
(* of holder factories, the engine-side catalog of scan views, the UDTF    *)
(* registry, and the execute pipeline                                      *)
(*     execute -> _preprocess -> _call -> (register, engine, unregister)   *)
(* run by a small number of threads.  Each thread owns a stack of execute  *)
(* frames: a UDTF that receives the connection may call execute again      *)
(* while the outer execute is still preprocessing.                         *)
(***************************************************************************)
EXTENDS Integers, Sequences, FiniteSets, TLC

VARIABLES
    holder_factories,        \* connection_base._holder_factories: name -> <<factory_ptr, holder>>
    registered_objects,      \* ConnectionBase._registered_objects: name -> capsule
    views,                   \* engine catalog: scan view name -> factory pointer
    factories,               \* engine side: factory pointer -> [holder, deleted]
    lock,                    \* ConnectionBase._lock: 0 = free, else the owning thread
    last_result,             \* ConnectionAPI._last_result
    udtf_registry,           \* ConnectionAPI._udtf_registry: name -> callable
    enable_replacement_scan, \* ConnectionAPI.enable_replacement_scan
    stack,                   \* per thread: the stack of execute frames, innermost last
    ops,                     \* per thread: operations started so far
    outcome,                 \* per thread: how its last top-level call ended
    latest,                  \* history: name -> object of the last completed registration
    closed,                  \* ConnectionBase.close has returned
    cursor,                  \* the Connection made by cursor(): None, or its _last_result
    task,                    \* per thread: its position in a call that is not an execute
    registration,            \* a TableRegistration: None, or its fields
    init_lock,               \* ConnectionBase._DUCKDB_INIT_LOCK: 0 when free, else its holder
    cursor_lock,             \* the _lock of the cursor connection: 0 when free, else its holder
    scan_holder,             \* a DataHolder under scan: its variant, its data, its cache
    scan_stream              \* history: the last call made on the holder and what it returned

\* the state of the connection
cvars == <<holder_factories, registered_objects, views, factories, lock, last_result,
           udtf_registry, enable_replacement_scan, stack, ops, outcome, latest,
           closed, cursor, task, registration, init_lock, cursor_lock>>

\* the state of the holder under scan
hvars == <<scan_holder, scan_stream>>

vars == <<cvars, hvars>>

(***************************************************************************)
(* Bounds of the model.                                                    *)
(***************************************************************************)
NumThreads == 2
MaxOps == 2
MaxRegOps == 3

Threads == 1..NumThreads

(***************************************************************************)
(* Python values.                                                          *)
(***************************************************************************)
None == [kind |-> "None"]
ArrowTable(id) == [kind |-> "table", id |-> id]
NonArrow(id) == [kind |-> "other", id |-> id]

\* hasattr(obj, "__arrow_c_stream__")
HasArrowStream(obj) == obj.kind \in {"table", "udtf", "result"}

NoException == [kind |-> "none", what |-> "", name |-> "", cause |-> ""]
Exception(kind, what, name, cause) ==
    [kind |-> kind, what |-> what, name |-> name, cause |-> cause]

(***************************************************************************)
(* dict helpers.  A dict whose order does not matter is a function; a dict *)
(* that is iterated (data.items()) is a sequence of <<key, value>> pairs   *)
(* in insertion order.                                                     *)
(***************************************************************************)
EmptyMap == [n \in {} |-> None]
MapPut(m, k, v) == [n \in DOMAIN m \cup {k} |-> IF n = k THEN v ELSE m[n]]
MapDelMutant(m, k) == [n \in {} |-> None]
MapDel(m, k) == [n \in DOMAIN m \ {k} |-> m[n]]

DictKeys(d) == {d[i][1] : i \in 1..Len(d)}
DictGet(d, k) == d[CHOOSE i \in 1..Len(d) : d[i][1] = k][2]
DictSet(d, k, v) ==
    IF k \in DictKeys(d)
    THEN [i \in 1..Len(d) |-> IF d[i][1] = k THEN <<k, v>> ELSE d[i]]
    ELSE Append(d, <<k, v>>)

(***************************************************************************)
(* Engine side (the compiled bindings: register_holder_pyx,                *)
(* delete_holder_factory_pyx, ConnectionImpl.register_capsule, .unregister *)
(* and .call_impl).  A scan view refers either to a holder factory or to a *)
(* single-use stream capsule.                                              *)
(***************************************************************************)
BaseTables == {"b"}

HolderView(ptr) == [kind |-> "holder", ptr |-> ptr, obj |-> None, consumed |-> FALSE]
CapsuleView(obj) == [kind |-> "capsule", ptr |-> 0, obj |-> obj, consumed |-> FALSE]

\* register_holder_pyx(conn_impl, name, holder, stats, replace): a new factory and
\* a view over it; without replace a name that is in use is refused.
EngineRegisterHolder(E, name, holder, replace) ==
    IF ~replace /\ name \in DOMAIN E.views \cup BaseTables
    THEN [views |-> E.views, factories |-> E.factories, ptr |-> 0,
          exc |-> Exception("RuntimeError", "NameInUse", name, "")]
    ELSE LET ptr == Len(E.factories) + 1 IN
         [views |-> MapPut(E.views, name, HolderView(ptr)),
          factories |-> Append(E.factories, [holder |-> holder, deleted |-> 0]),
          ptr |-> ptr,
          exc |-> NoException]

\* delete_holder_factory_pyx(conn_impl, factory_ptr, holder)
EngineDeleteFactory(fs, ptr) ==
    [fs EXCEPT ![ptr].deleted = @ + 1]

\* ConnectionImpl.register_capsule(name, capsule, cardinality, replace=True)
EngineRegisterCapsule(E, name, capsule) ==
    IF capsule.kind # "capsule"
    THEN [views |-> E.views, factories |-> E.factories,
          exc |-> Exception("TypeError", "NotACapsule", name, "")]
    ELSE [views |-> MapPut(E.views, name, CapsuleView(capsule)),
          factories |-> E.factories, exc |-> NoException]

\* ConnectionImpl.unregister(name): drops the view; a name that is absent is ignored.
EngineUnregister(vs, name) == MapDel(vs, name)

\* ConnectionImpl.close(): closes the engine handle, and its scan views with it;
\* a factory is destroyed by delete_holder_factory_pyx only.
EngineClose(E) == [views |-> EmptyMap, factories |-> E.factories]

(***************************************************************************)
(* data_sources.get_holder and dataset.backend.register_table              *)
(***************************************************************************)
\* a stream capsule made by `table.__arrow_c_stream__()`: every call makes a new one
CapsuleIds == <<"c1", "c2", "c3", "c4", "c5", "c6">>
Capsule(n) == [kind |-> "capsule", id |-> CapsuleIds[n]]

\* get_holder(data): an ArrowHolder over a table (or frame), None for anything else
GetHolderMutant(data) ==
    IF data.kind \in {"table", "udtf", "result", "capsule"} THEN data ELSE None
GetHolder(data) == IF data.kind \in {"table", "udtf", "result"} THEN data ELSE None

\* backend.py line 92: `if replace and name in connection_base._holder_factories`
ReplacesOldMutant(replace, name, hf) == name \in DOMAIN hf
ReplacesOld(replace, name, hf) == replace /\ name \in DOMAIN hf

\* backend.py lines 73 and 99-106: the holder handed to register_holder_pyx
HolderForMutant(name, data, hf) ==
    IF name \in DOMAIN hf THEN hf[name][2] ELSE GetHolder(data)
HolderFor(name, data, hf) == GetHolder(data)

\* register_table(connection_base, name, data, replace=..., statistics=...)
\* R = [hf, views, factories]; statsRaise: compute_statistics raises ValueError
RegisterTable(R, name, data, replace, statsRaise) ==
    LET holder == HolderFor(name, data, R.hf)
        unchanged == [hf |-> R.hf, views |-> R.views, factories |-> R.factories]
    IN
    IF holder = None
    THEN unchanged @@ [ret |-> FALSE, exc |-> NoException]
    ELSE
    LET popped == ReplacesOld(replace, name, R.hf)
        hf1 == IF popped THEN MapDel(R.hf, name) ELSE R.hf
        fs1 == IF popped THEN EngineDeleteFactory(R.factories, R.hf[name][1])
               ELSE R.factories
    IN
    IF statsRaise
    THEN [hf |-> hf1, views |-> R.views, factories |-> fs1, ret |-> FALSE,
          exc |-> Exception("ValueError", "InvalidStatisticsColumn", name, "")]
    ELSE
    LET e == EngineRegisterHolder([views |-> R.views, factories |-> fs1],
                                  name, holder, replace)
    IN
    IF e.exc # NoException
    THEN [hf |-> hf1, views |-> e.views, factories |-> e.factories, ret |-> FALSE,
          exc |-> e.exc]
    ELSE [hf |-> MapPut(hf1, name, <<e.ptr, holder>>), views |-> e.views,
          factories |-> e.factories, ret |-> TRUE, exc |-> NoException]

\* ConnectionBase._register_capsule(name, capsule)
\* R = [hf, views, factories, ro]
RegisterCapsule(R, name, capsule) ==
    LET data == IF capsule.kind = "reader"
                THEN [kind |-> "capsule", id |-> capsule.id]   \* __arrow_c_stream__()
                ELSE capsule
        e == EngineRegisterCapsule([views |-> R.views, factories |-> R.factories],
                                   name, data)
    IN [hf |-> R.hf, views |-> e.views, factories |-> e.factories,
        ro |-> MapPut(R.ro, name, data), exc |-> e.exc]

\* ConnectionBase._register_arrow(name, data): DataHolder first, capsule as fallback
RegisterArrow(R, name, data) ==
    LET r == RegisterTable(R, name, data, TRUE, FALSE) IN
    IF r.exc # NoException
    THEN [hf |-> r.hf, views |-> r.views, factories |-> r.factories, ro |-> R.ro,
          exc |-> r.exc]
    ELSE IF r.ret
    THEN [hf |-> r.hf, views |-> r.views, factories |-> r.factories, ro |-> R.ro,
          exc |-> NoException]
    ELSE RegisterCapsule(R, name, data)

\* ConnectionBase.unregister(name), under _DUCKDB_INIT_LOCK
\* R = [hf, views, factories, ro]
UnregisterName(R, name) ==
    [hf |-> R.hf, views |-> EngineUnregister(R.views, name), factories |-> R.factories,
     ro |-> MapDel(R.ro, name), exc |-> NoException]

\* ConnectionBase.close(), under _DUCKDB_INIT_LOCK (lines 256-260)
\* R = [hf, views, factories, ro]
CloseConnection(R) ==
    LET e == EngineClose([views |-> R.views, factories |-> R.factories]) IN
    [hf |-> R.hf, views |-> e.views, factories |-> e.factories, ro |-> EmptyMap,
     exc |-> NoException]

Registry == [hf |-> holder_factories, views |-> views, factories |-> factories,
             ro |-> registered_objects]

(***************************************************************************)
(* SQL text.  A query is the sequence of its FROM items, each the text the *)
(* caller wrote: a table name, or a table-function call.  The engine's     *)
(* parser (json_serialize_sql) is a table from call texts to their nodes;  *)
(* every other item is a BASE_TABLE node (a syntax error is the item "??").*)
(***************************************************************************)
Constant(alias, value) == [class |-> "CONSTANT", alias |-> alias, value |-> value]

CallForms ==
    { [text |-> "f(5)", name |-> "f", children |-> <<Constant("", "5")>>],
      [text |-> "f(m := 3, n := 5)", name |-> "f",
       children |-> <<Constant("m", "3"), Constant("n", "5")>>],
      [text |-> "q(5)", name |-> "q", children |-> <<Constant("", "5")>>],
      [text |-> "x(5)", name |-> "x", children |-> <<Constant("", "5")>>],
      [text |-> "range(5)", name |-> "range", children |-> <<Constant("", "5")>>] }

\* table functions the engine has built in
BuiltinFunctions == {"range"}

IsCall(item) == \E c \in CallForms : c.text = item
FormOf(item) == CHOOSE c \in CallForms : c.text = item

\* json_serialize_sql(query): {"error": ...} or the statements' nodes
EngineParse(query) ==
    LET isTable(item) == ~IsCall(item)
        isCall(item) == IsCall(item)
        tabs == SelectSeq(query, isTable)
        funs == SelectSeq(query, isCall)
    IN [error |-> \E i \in 1..Len(query) : query[i] = "??",
        tables |-> tabs,
        functions |-> [i \in 1..Len(funs) |->
                         [name |-> FormOf(funs[i]).name,
                          children |-> FormOf(funs[i]).children]]]

\* ', '.join(str(a) for a in args)
RECURSIVE JoinComma(_)
JoinComma(args) ==
    IF Len(args) = 0 THEN ""
    ELSE IF Len(args) = 1 THEN args[1]
    ELSE args[1] \o ", " \o JoinComma(Tail(args))

\* _extract_function_calls: the values of the CONSTANT children, in order
ArgsOf(children) ==
    LET isConst(c) == c.class = "CONSTANT"
        cs == SelectSeq(children, isConst)
    IN [i \in 1..Len(cs) |-> cs[i].value]

ExtractFunctionCalls(functions) ==
    LET named(fn) == fn.name # ""
        fs == SelectSeq(functions, named)
    IN [i \in 1..Len(fs) |->
          [name |-> fs[i].name,
           args |-> ArgsOf(fs[i].children),
           original_text |-> fs[i].name \o "(" \o JoinComma(ArgsOf(fs[i].children)) \o ")"]]

\* _extract_table_refs: the set of non-empty table names
ExtractTableRefs(tables) == {tables[i] : i \in 1..Len(tables)} \ {""}

\* str.replace(old, new): every non-overlapping occurrence, left to right
RECURSIVE StrReplace(_, _, _)
StrReplace(s, old, new) ==
    IF Len(s) < Len(old) \/ Len(old) = 0 THEN s
    ELSE IF SubSeq(s, 1, Len(old)) = old
    THEN new \o StrReplace(SubSeq(s, Len(old) + 1, Len(s)), old, new)
    ELSE SubSeq(s, 1, 1) \o StrReplace(SubSeq(s, 2, Len(s)), old, new)

\* query.replace(repl["original"], repl["replacement"]) for each replacement
RECURSIVE Rewrite(_, _)
Rewrite(query, replacements) ==
    IF Len(replacements) = 0 THEN query
    ELSE Rewrite([i \in 1..Len(query) |->
                     StrReplace(query[i], replacements[1].original,
                                replacements[1].replacement)],
                 Tail(replacements))

(***************************************************************************)
(* Replacement scan: _get_replacement walks inspect.stack()[1:], that is   *)
(* _preprocess, execute, and then the caller's frames outward.             *)
(***************************************************************************)
ModuleGlobals ==
    [n \in {"inspect", "json", "logging", "uuid", "Result", "ConnectionBase", "logger"}
        |-> NonArrow(n)]

PreprocessLocals ==
    [n \in {"self", "query", "data", "parsed", "parsed_json", "tables_result",
            "existing_tables", "table_refs", "stmt", "unknown_tables", "table_name"}
        |-> IF n \in {"parsed", "tables_result"} THEN ArrowTable(n) ELSE NonArrow(n)]

ExecuteLocals ==
    [n \in {"self", "query", "parameters", "output_type", "data"} |-> NonArrow(n)]

LibraryFrames ==
    << [locals |-> PreprocessLocals, globals |-> ModuleGlobals],
       [locals |-> ExecuteLocals, globals |-> ModuleGlobals] >>

\* the frames searched, innermost first
SearchedFrames(scope) == LibraryFrames \o scope

RECURSIVE GetReplacementIn(_, _)
GetReplacementIn(name, frames) ==
    IF Len(frames) = 0 THEN None
    ELSE LET fr == frames[1] IN
         IF name \in DOMAIN fr.locals
         THEN (IF HasArrowStream(fr.locals[name]) THEN fr.locals[name] ELSE None)
         ELSE IF name \in DOMAIN fr.globals
         THEN (IF HasArrowStream(fr.globals[name]) THEN fr.globals[name] ELSE None)
         ELSE GetReplacementIn(name, Tail(frames))

\* _get_replacement(name)
GetReplacement(name, scope) == GetReplacementIn(name, SearchedFrames(scope))

\* _preprocess lines 259-268: adopt a replacement for every unknown table, in the
\* order `order` in which the set is iterated
RECURSIVE AdoptReplacements(_, _, _)
AdoptReplacements(data, order, scope) ==
    IF Len(order) = 0 THEN data
    ELSE LET replacement == GetReplacement(order[1], scope) IN
         AdoptReplacements(IF replacement # None
                           THEN DictSet(data, order[1], replacement)
                           ELSE data,
                           Tail(order), scope)

\* the orders in which a set can be iterated
Orders(S) ==
    {o \in [1..Cardinality(S) -> S] : \A i, j \in 1..Cardinality(S) : i # j => o[i] # o[j]}

(***************************************************************************)
(* UDTFs.  A registered callable is described by its declared parameters,  *)
(* how many leading ones have no default, and what its body does:          *)
(*   "table": returns a table computed from its arguments                  *)
(*   "raise": raises                                                       *)
(*   "conn":  runs `inner` through conn.execute and returns that result    *)
(***************************************************************************)
Udtf(params, required, body, inner) ==
    [params |-> params, required |-> required, body |-> body, inner |-> inner]

SomeUdtfs ==
    [n \in {"f", "q", "x"} |->
        CASE n = "f" -> Udtf(<<"n", "m">>, 0, "table", <<>>)
          [] n = "q" -> Udtf(<<"limit", "conn">>, 2, "conn", <<"b">>)
          [] n = "x" -> Udtf(<<"n">>, 1, "raise", <<>>)]

\* the 8 hex digits uuid.uuid4().hex[:8] can give, cut down to a few
HexIds == {"0000000a", "0000000b"}

\* _generate_table_name(func_name, kwargs), unique_id being what uuid4 gave
GenerateTableName(func_name, unique_id) == "_udtf_" \o func_name \o "_" \o unique_id

\* _call_udtf lines 148-151: inject the connection when the last parameter is `conn`
InjectsConnMutant(params) == FALSE
InjectsConn(params) == Len(params) > 0 /\ params[Len(params)] = "conn"

\* _call_udtf lines 153/155: func(*args, conn=self) or func(*args): what is passed
Invocation(func_name, args, params) ==
    [fn |-> func_name, args |-> args,
     kwargs |-> IF InjectsConn(params) THEN [k \in {"conn"} |-> "self"] ELSE EmptyMap]

\* Python's binding of an invocation to the declared parameters: TypeError when a
\* positional argument has no parameter left, a keyword names no parameter or one
\* already filled, or a parameter without default is left unfilled
BindFails(udtf, inv) ==
    LET own == udtf.params IN
    \/ Len(inv.args) > Len(own)
    \/ \E k \in DOMAIN inv.kwargs : \A i \in 1..Len(own) : own[i] # k
    \/ \E i \in 1..Len(own) : i <= Len(inv.args) /\ own[i] \in DOMAIN inv.kwargs
    \/ \E i \in 1..Len(own) :
          i <= udtf.required /\ i > Len(inv.args) /\ own[i] \notin DOMAIN inv.kwargs

\* the value each declared parameter receives
Bound(udtf, inv) ==
    LET own == udtf.params IN
    [i \in 1..Len(own) |->
        IF i <= Len(inv.args) THEN inv.args[i]
        ELSE IF own[i] \in DOMAIN inv.kwargs THEN inv.kwargs[own[i]]
        ELSE "default"]

UdtfTable(func_name, bound) == [kind |-> "udtf", fn |-> func_name, bound |-> bound]

(***************************************************************************)
(* ConnectionImpl.call_impl: run a (rewritten) query against the catalog.  *)
(***************************************************************************)
EngineResolve(item, vs, fs) ==
    IF item = "??"
    THEN [exc |-> Exception("RuntimeError", "ParserError", item, ""), rows |-> None]
    ELSE IF IsCall(item)
    THEN (IF FormOf(item).name \in BuiltinFunctions
          THEN [exc |-> NoException, rows |-> [kind |-> "base", id |-> item]]
          ELSE [exc |-> Exception("RuntimeError", "UnknownTableFunction",
                                  FormOf(item).name, ""),
                rows |-> None])
    ELSE IF item \in BaseTables
    THEN [exc |-> NoException, rows |-> [kind |-> "base", id |-> item]]
    ELSE IF item \notin DOMAIN vs
    THEN [exc |-> Exception("RuntimeError", "UnknownTable", item, ""), rows |-> None]
    ELSE IF vs[item].kind = "capsule"
    THEN (IF vs[item].consumed
          THEN [exc |-> Exception("RuntimeError", "StreamAlreadyConsumed", item, ""),
                rows |-> None]
          ELSE [exc |-> NoException, rows |-> vs[item].obj])
    ELSE IF fs[vs[item].ptr].deleted > 0
    THEN [exc |-> Exception("RuntimeError", "DanglingFactory", item, ""), rows |-> None]
    ELSE [exc |-> NoException, rows |-> fs[vs[item].ptr].holder]

EngineCall(query, vs, fs) ==
    LET res == [i \in 1..Len(query) |-> EngineResolve(query[i], vs, fs)]
        bad == {i \in 1..Len(query) : res[i].exc # NoException}
        scanned == {query[i] : i \in 1..Len(query)} \cap DOMAIN vs
    IN [exc |-> IF bad = {} THEN NoException
                ELSE res[CHOOSE i \in bad : \A j \in bad : i <= j].exc,
        result |-> IF bad = {}
                   THEN [kind |-> "result", rows |-> [i \in 1..Len(query) |-> res[i].rows]]
                   ELSE None,
        views |-> IF bad = {}
                  THEN [n \in DOMAIN vs |->
                          IF n \in scanned /\ vs[n].kind = "capsule"
                          THEN [vs[n] EXCEPT !.consumed = TRUE] ELSE vs[n]]
                  ELSE vs]

(***************************************************************************)
(* Execute frames.                                                         *)
(***************************************************************************)
NewFrame(q, d, sc) ==
    [pc |-> "preprocess",
     query0 |-> q, query |-> q,        \* the caller's SQL and the current SQL
     data0 |-> d, data |-> d,          \* the caller's extra data and the current dict
     scope |-> sc,                     \* the caller's frames, innermost first
     table_refs |-> {},                \* _preprocess: table_refs
     calls |-> <<>>, ci |-> 1,         \* _preprocess: function_calls and the loop index
     replacements |-> <<>>,            \* _preprocess: replacements
     gen |-> <<>>,                     \* the transient names generated, in order
     invoked |-> <<>>,                 \* the UDTF invocations made, in order
     tname |-> "",                     \* the transient name of the UDTF being run
     pending |-> <<>>,                 \* _call: data.items() still to register
     to_unregister |-> <<>>,           \* _call: _data_to_unregister
     registered |-> <<>>,              \* _call: every name registered so far
     engine_ran |-> FALSE,             \* _call: call_impl was reached
     exc |-> NoException,
     result |-> None]

NoOutcome == [op |-> "none"]

Top(t) == stack[t][Len(stack[t])]
Depth(t) == Len(stack[t])
WithTop(t, fr) == [stack EXCEPT ![t] = [@ EXCEPT ![Len(@)] = fr]]
At(t, pc) == Depth(t) > 0 /\ Top(t).pc = pc

\* thread t is not inside any call
Idle(t) == Depth(t) = 0 /\ task[t] = None

ExecuteOutcome(exc, fr) == [op |-> "execute", exc |-> exc, frame |-> fr]

\* _preprocess line 295: raise RuntimeError(f"UDTF execution failed for {func_name}: {e}") from e
UdtfExecutionFailed(func_name, e) ==
    Exception("RuntimeError", "UdtfExecutionFailed", func_name, e.what)

\* the UDTF called at the loop index of frame fr
CurrentCall(fr) == fr.calls[fr.ci]

\* `with self._lock` on a threading.Lock: entered only while no thread holds it
AcquirableMutant(l) == TRUE
Acquirable(l) == l = 0

\* the operations started so far, by all threads
RECURSIVE SumTo(_, _)
SumTo(f, n) == IF n = 0 THEN 0 ELSE f[n] + SumTo(f, n - 1)
Started == SumTo(ops, NumThreads)

\* execute line 184 followed by the call of _preprocess
ExecuteBegin(t, q, d, sc, limit) ==
    /\ Idle(t)
    /\ ~closed
    /\ Started < limit
    /\ ops' = [ops EXCEPT ![t] = @ + 1]
    /\ last_result' = None
    /\ stack' = [stack EXCEPT ![t] = <<NewFrame(q, d, sc)>>]
    /\ outcome' = [outcome EXCEPT ![t] = NoOutcome]
    /\ UNCHANGED <<closed, cursor, task, registration, init_lock, cursor_lock,
                   hvars>>
    /\ UNCHANGED <<holder_factories, registered_objects, views, factories, lock,
                   udtf_registry, enable_replacement_scan, latest>>

\* _preprocess line 233
FastPath == ~enable_replacement_scan /\ DOMAIN udtf_registry = {}

\* _preprocess lines 233-235: nothing to resolve
PreprocessFast(t) ==
    /\ At(t, "preprocess")
    /\ FastPath
    /\ stack' = WithTop(t, [Top(t) EXCEPT !.pc = "call"])
    /\ UNCHANGED <<closed, cursor, task, registration, init_lock, cursor_lock,
                   hvars>>
    /\ UNCHANGED <<holder_factories, registered_objects, views, factories, lock,
                   last_result, udtf_registry, enable_replacement_scan, ops, outcome,
                   latest>>

\* _preprocess lines 237-249: parse through _call, which takes the query lock
PreprocessParse(t) ==
    /\ At(t, "preprocess")
    /\ ~FastPath
    /\ Acquirable(lock)
    /\ LET fr == Top(t)
           parsed == EngineParse(fr.query)
       IN stack' = WithTop(t,
             IF parsed.error
             THEN [fr EXCEPT !.pc = "call"]
             ELSE [fr EXCEPT !.pc = IF enable_replacement_scan THEN "scan" ELSE "udtf",
                             !.table_refs = ExtractTableRefs(parsed.tables),
                             !.calls = ExtractFunctionCalls(parsed.functions)])
    /\ UNCHANGED <<closed, cursor, task, registration, init_lock, cursor_lock,
                   hvars>>
    /\ UNCHANGED <<holder_factories, registered_objects, views, factories, lock,
                   last_result, udtf_registry, enable_replacement_scan, ops, outcome,
                   latest>>

\* _preprocess line 263
UnknownTables(table_refs, existing_tables, data) == table_refs \ existing_tables

\* _preprocess lines 251-268: SHOW TABLES through _call, then the replacement scan
PreprocessScan(t) ==
    /\ At(t, "scan")
    /\ Acquirable(lock)
    /\ LET fr == Top(t)
           existing_tables == BaseTables \cup DOMAIN views
           unknown_tables == UnknownTables(fr.table_refs, existing_tables, fr.data)
       IN \E order \in Orders(unknown_tables) :
             stack' = WithTop(t, [fr EXCEPT
                 !.pc = "udtf",
                 !.data = AdoptReplacements(fr.data, order, fr.scope)])
    /\ UNCHANGED <<closed, cursor, task, registration, init_lock, cursor_lock,
                   hvars>>
    /\ UNCHANGED <<holder_factories, registered_objects, views, factories, lock,
                   last_result, udtf_registry, enable_replacement_scan, ops, outcome,
                   latest>>

\* _preprocess line 271: no UDTF is registered
UdtfNone(t) ==
    /\ At(t, "udtf")
    /\ DOMAIN udtf_registry = {}
    /\ stack' = WithTop(t, [Top(t) EXCEPT !.pc = "call"])
    /\ UNCHANGED <<closed, cursor, task, registration, init_lock, cursor_lock,
                   hvars>>
    /\ UNCHANGED <<holder_factories, registered_objects, views, factories, lock,
                   last_result, udtf_registry, enable_replacement_scan, ops, outcome,
                   latest>>

UdtfLoop(t) ==
    /\ At(t, "udtf")
    /\ DOMAIN udtf_registry # {}
    /\ Top(t).ci <= Len(Top(t).calls)

\* _preprocess line 281: a function that is not a registered UDTF is left alone
UdtfSkip(t) ==
    /\ UdtfLoop(t)
    /\ CurrentCall(Top(t)).name \notin DOMAIN udtf_registry
    /\ stack' = WithTop(t, [Top(t) EXCEPT !.ci = @ + 1])
    /\ UNCHANGED <<closed, cursor, task, registration, init_lock, cursor_lock,
                   hvars>>
    /\ UNCHANGED <<holder_factories, registered_objects, views, factories, lock,
                   last_result, udtf_registry, enable_replacement_scan, ops, outcome,
                   latest>>

\* the frame after the UDTF of the current call returned `obj` (lines 288-292)
AfterUdtf(fr, table_name, inv, obj) ==
    [fr EXCEPT !.pc = "udtf",
               !.data = DictSet(fr.data, table_name, obj),
               !.replacements = Append(@, [original |-> CurrentCall(fr).original_text,
                                           replacement |-> table_name]),
               !.invoked = Append(@, inv),
               !.tname = "",
               !.ci = @ + 1]

\* lines 283-292: a UDTF that computes a table from its arguments
UdtfInvokeTable(t) ==
    /\ UdtfLoop(t)
    /\ CurrentCall(Top(t)).name \in DOMAIN udtf_registry
    /\ LET fr == Top(t)
           call == CurrentCall(fr)
           udtf == udtf_registry[call.name]
           inv == Invocation(call.name, call.args, udtf.params)
       IN /\ udtf.body = "table"
          /\ ~BindFails(udtf, inv)
          /\ \E unique_id \in HexIds :
                LET table_name == GenerateTableName(call.name, unique_id) IN
                stack' = WithTop(t,
                    AfterUdtf([fr EXCEPT !.gen = Append(@, table_name)], table_name, inv,
                              UdtfTable(call.name, Bound(udtf, inv))))
    /\ UNCHANGED <<closed, cursor, task, registration, init_lock, cursor_lock,
                   hvars>>
    /\ UNCHANGED <<holder_factories, registered_objects, views, factories, lock,
                   last_result, udtf_registry, enable_replacement_scan, ops, outcome,
                   latest>>

\* lines 283-295: the UDTF (or the call of it) raises; execute raises RuntimeError
UdtfInvokeRaise(t) ==
    /\ UdtfLoop(t)
    /\ Depth(t) = 1
    /\ CurrentCall(Top(t)).name \in DOMAIN udtf_registry
    /\ LET fr == Top(t)
           call == CurrentCall(fr)
           udtf == udtf_registry[call.name]
           inv == Invocation(call.name, call.args, udtf.params)
       IN /\ udtf.body = "raise" \/ BindFails(udtf, inv)
          /\ \E unique_id \in HexIds :
                LET table_name == GenerateTableName(call.name, unique_id)
                    e == IF BindFails(udtf, inv)
                         THEN Exception("TypeError", "BadArguments", call.name, "")
                         ELSE Exception("ValueError", "Intentional", call.name, "")
                    fr1 == [fr EXCEPT !.gen = Append(@, table_name),
                                      !.invoked = Append(@, inv),
                                      !.exc = UdtfExecutionFailed(call.name, e)]
                IN /\ stack' = [stack EXCEPT ![t] = <<>>]
                   /\ outcome' = [outcome EXCEPT ![t] = ExecuteOutcome(fr1.exc, fr1)]
    /\ UNCHANGED <<closed, cursor, task, registration, init_lock, cursor_lock,
                   hvars>>
    /\ UNCHANGED <<holder_factories, registered_objects, views, factories, lock,
                   last_result, udtf_registry, enable_replacement_scan, ops, latest>>

\* the frames a UDTF body adds below the ones of the execute that runs it
UdtfFrames(udtf) ==
    << [locals |-> [n \in {udtf.params[i] : i \in 1..Len(udtf.params)} |-> NonArrow(n)],
        globals |-> EmptyMap] >>

\* lines 283-287 for a UDTF that was handed the connection: its body calls
\* conn.execute(inner), which starts with line 184
UdtfInvokeConn(t) ==
    /\ UdtfLoop(t)
    /\ Depth(t) = 1
    /\ CurrentCall(Top(t)).name \in DOMAIN udtf_registry
    /\ LET fr == Top(t)
           call == CurrentCall(fr)
           udtf == udtf_registry[call.name]
           inv == Invocation(call.name, call.args, udtf.params)
       IN /\ udtf.body = "conn"
          /\ ~BindFails(udtf, inv)
          /\ \E unique_id \in HexIds :
                LET table_name == GenerateTableName(call.name, unique_id)
                    outer == [fr EXCEPT !.pc = "udtf_wait",
                                        !.gen = Append(@, table_name),
                                        !.tname = table_name]
                    inner == NewFrame(udtf.inner, <<>>,
                                      UdtfFrames(udtf) \o LibraryFrames \o fr.scope)
                IN stack' = [stack EXCEPT ![t] = <<outer, inner>>]
    /\ last_result' = None
    /\ UNCHANGED <<closed, cursor, task, registration, init_lock, cursor_lock,
                   hvars>>
    /\ UNCHANGED <<holder_factories, registered_objects, views, factories, lock,
                   udtf_registry, enable_replacement_scan, ops, outcome, latest>>

\* lines 297-301: rewrite the query
UdtfRewrite(t) ==
    /\ At(t, "udtf")
    /\ DOMAIN udtf_registry # {}
    /\ Top(t).ci > Len(Top(t).calls)
    /\ stack' = WithTop(t, [Top(t) EXCEPT !.pc = "call",
                                          !.query = Rewrite(@, Top(t).replacements)])
    /\ UNCHANGED <<closed, cursor, task, registration, init_lock, cursor_lock,
                   hvars>>
    /\ UNCHANGED <<holder_factories, registered_objects, views, factories, lock,
                   last_result, udtf_registry, enable_replacement_scan, ops, outcome,
                   latest>>

(***************************************************************************)
(* ConnectionBase._call: everything from line 186 to line 239 runs inside  *)
(* `with self._lock`.                                                      *)
(***************************************************************************)
\* line 186: take the connection query lock (threading.Lock, not reentrant)
CallAcquire(t) ==
    /\ At(t, "call")
    /\ Acquirable(lock)
    /\ lock' = t
    /\ stack' = WithTop(t, [Top(t) EXCEPT !.pc = "register", !.pending = Top(t).data])
    /\ UNCHANGED <<closed, cursor, task, registration, init_lock, cursor_lock,
                   hvars>>
    /\ UNCHANGED <<holder_factories, registered_objects, views, factories, last_result,
                   udtf_registry, enable_replacement_scan, ops, outcome, latest>>

\* lines 205-208: register the next item of data; a failure goes to `finally`
CallRegister(t) ==
    /\ At(t, "register")
    /\ Top(t).pending # <<>>
    /\ LET fr == Top(t)
           name == Head(fr.pending)[1]
           data_obj == Head(fr.pending)[2]
           r == RegisterArrow(Registry, name, data_obj)
       IN /\ holder_factories' = r.hf
          /\ views' = r.views
          /\ factories' = r.factories
          /\ registered_objects' = r.ro
          /\ latest' = IF r.exc = NoException THEN MapPut(latest, name, data_obj)
                       ELSE latest
          /\ stack' = WithTop(t,
                IF r.exc = NoException
                THEN [fr EXCEPT !.pending = Tail(@),
                                !.to_unregister = Append(@, name),
                                !.registered = Append(@, name)]
                ELSE [fr EXCEPT !.pc = "cleanup", !.exc = r.exc])
    /\ UNCHANGED <<closed, cursor, task, registration, init_lock, cursor_lock,
                   hvars>>
    /\ UNCHANGED <<lock, last_result, udtf_registry, enable_replacement_scan, ops,
                   outcome>>

\* lines 210-236: the engine runs the query
CallEngine(t) ==
    /\ At(t, "register")
    /\ Top(t).pending = <<>>
    /\ LET fr == Top(t)
           r == EngineCall(fr.query, views, factories)
       IN /\ views' = r.views
          /\ stack' = WithTop(t, [fr EXCEPT !.pc = "cleanup",
                                            !.engine_ran = TRUE,
                                            !.exc = r.exc,
                                            !.result = r.result])
    /\ UNCHANGED <<closed, cursor, task, registration, init_lock, cursor_lock,
                   hvars>>
    /\ UNCHANGED <<holder_factories, registered_objects, factories, lock, last_result,
                   udtf_registry, enable_replacement_scan, ops, outcome, latest>>

\* lines 237-239: the names the `finally` block unregisters, given the names
\* registered and whether the body raised
NamesToUnregisterMutant(to_unregister, raised) == IF raised THEN <<>> ELSE to_unregister
NamesToUnregister(to_unregister, raised) == to_unregister

\* lines 237-239 and unregister (lines 241-254)
CallUnregister(t) ==
    /\ At(t, "cleanup")
    /\ NamesToUnregister(Top(t).to_unregister, Top(t).exc # NoException) # <<>>
    /\ LET fr == Top(t)
           name == Head(fr.to_unregister)
           r == UnregisterName(Registry, name)
       IN /\ holder_factories' = r.hf
          /\ views' = r.views
          /\ factories' = r.factories
          /\ registered_objects' = r.ro
          /\ latest' = MapDel(latest, name)
          /\ stack' = WithTop(t, [fr EXCEPT !.to_unregister = Tail(@)])
    /\ UNCHANGED <<closed, cursor, task, registration, init_lock, cursor_lock,
                   hvars>>
    /\ UNCHANGED <<lock, last_result, udtf_registry, enable_replacement_scan, ops,
                   outcome>>

\* whether the lock is still held while the `finally` block runs (line 186 encloses 237)
ReleasePoint(pc, to_unregister) == pc = "cleanup" /\ to_unregister = <<>>

\* leaving `with self._lock`, then lines 192-195 of execute (or the exception)
CallReturn(t) ==
    /\ Depth(t) > 0
    /\ ReleasePoint(Top(t).pc,
                    NamesToUnregister(Top(t).to_unregister, Top(t).exc # NoException))
    /\ lock' = 0
    /\ LET fr == [Top(t) EXCEPT !.pc = "done"] IN
       IF Depth(t) = 1
       THEN /\ stack' = [stack EXCEPT ![t] = <<>>]
            /\ outcome' = [outcome EXCEPT ![t] = ExecuteOutcome(fr.exc, fr)]
            /\ last_result' = IF fr.exc = NoException THEN fr.result ELSE last_result
       ELSE LET outer == stack[t][Depth(t) - 1]
                call == CurrentCall(outer)
                inv == Invocation(call.name, call.args, udtf_registry[call.name].params)
            IN
            IF fr.exc = NoException
            THEN \* the inner execute returned; the UDTF returns conn.arrow_table()
                 /\ last_result' = fr.result
                 /\ stack' = [stack EXCEPT ![t] =
                                 <<AfterUdtf(outer, outer.tname, inv, fr.result)>>]
                 /\ UNCHANGED outcome
            ELSE \* the inner execute raised inside the UDTF
                 LET outer1 == [outer EXCEPT !.invoked = Append(@, inv),
                                             !.exc = UdtfExecutionFailed(call.name, fr.exc)]
                 IN /\ stack' = [stack EXCEPT ![t] = <<>>]
                    /\ outcome' = [outcome EXCEPT ![t] = ExecuteOutcome(outer1.exc, outer1)]
                    /\ UNCHANGED last_result
    /\ UNCHANGED <<closed, cursor, task, registration, init_lock, cursor_lock,
                   hvars>>
    /\ UNCHANGED <<holder_factories, registered_objects, views, factories,
                   udtf_registry, enable_replacement_scan, ops, latest>>

(***************************************************************************)
(* The registry API called directly: Connection.register / .unregister     *)
(***************************************************************************)
Register(t, name, data, replace, statsRaise, limit) ==
    /\ Idle(t)
    /\ ~closed
    /\ Started < limit
    /\ ops' = [ops EXCEPT ![t] = @ + 1]
    /\ LET r == RegisterTable(Registry, name, data, replace, statsRaise) IN
          /\ holder_factories' = r.hf
          /\ views' = r.views
          /\ factories' = r.factories
          /\ latest' = IF r.exc = NoException /\ r.ret THEN MapPut(latest, name, data)
                       ELSE latest
          /\ outcome' = [outcome EXCEPT ![t] =
                [op |-> "register", exc |-> r.exc, ret |-> r.ret, name |-> name,
                 data |-> data, replace |-> replace, stats_raised |-> statsRaise]]
    /\ UNCHANGED <<closed, cursor, task, registration, init_lock, cursor_lock,
                   hvars>>
    /\ UNCHANGED <<registered_objects, lock, last_result, udtf_registry,
                   enable_replacement_scan, stack>>

Unregister(t, name, limit) ==
    /\ Idle(t)
    /\ ~closed
    /\ Started < limit
    /\ ops' = [ops EXCEPT ![t] = @ + 1]
    /\ LET r == UnregisterName(Registry, name) IN
          /\ holder_factories' = r.hf
          /\ views' = r.views
          /\ factories' = r.factories
          /\ registered_objects' = r.ro
          /\ latest' = MapDel(latest, name)
          /\ outcome' = [outcome EXCEPT ![t] =
                [op |-> "unregister", exc |-> r.exc, name |-> name]]
    /\ UNCHANGED <<closed, cursor, task, registration, init_lock, cursor_lock,
                   hvars>>
    /\ UNCHANGED <<lock, last_result, udtf_registry, enable_replacement_scan, stack>>

\* ConnectionBase._register_arrow(name, data) called directly (lines 103-121)
RegisterArrowCall(t, name, data, limit) ==
    /\ Idle(t)
    /\ ~closed
    /\ Started < limit
    /\ ops' = [ops EXCEPT ![t] = @ + 1]
    /\ LET r == RegisterArrow(Registry, name, data) IN
          /\ holder_factories' = r.hf
          /\ views' = r.views
          /\ factories' = r.factories
          /\ registered_objects' = r.ro
          /\ latest' = IF r.exc = NoException THEN MapPut(latest, name, data)
                       ELSE latest
          /\ outcome' = [outcome EXCEPT ![t] =
                [op |-> "register_arrow", exc |-> r.exc, name |-> name, data |-> data]]
    /\ UNCHANGED <<closed, cursor, task, registration, init_lock, cursor_lock,
                   hvars>>
    /\ UNCHANGED <<lock, last_result, udtf_registry, enable_replacement_scan, stack>>

\* conn._register_arrow(name, table.__arrow_c_stream__()): the capsule is new
RegisterFreshCapsule(t, name, limit) ==
    RegisterArrowCall(t, name, Capsule(Started + 1), limit)

\* ConnectionBase.close() called directly (lines 256-260)
Close(t, limit) ==
    /\ Idle(t)
    /\ ~closed
    /\ Started < limit
    /\ ops' = [ops EXCEPT ![t] = @ + 1]
    /\ LET r == CloseConnection(Registry) IN
          /\ holder_factories' = r.hf
          /\ views' = r.views
          /\ factories' = r.factories
          /\ registered_objects' = r.ro
          /\ outcome' = [outcome EXCEPT ![t] = [op |-> "close", exc |-> r.exc]]
    /\ latest' = EmptyMap
    /\ closed' = TRUE
    /\ UNCHANGED <<cursor, task, registration, init_lock, cursor_lock,
                   hvars>>
    /\ UNCHANGED <<lock, last_result, udtf_registry, enable_replacement_scan, stack>>

(***************************************************************************)
(* Connection.cursor and the queries of the cursor                         *)
(***************************************************************************)
\* ConnectionAPI.__init__ line 73, for the Connection that cursor() makes
NewCursor == [kind |-> "cursor", last_result |-> None]

\* `self` in ConnectionAPI.execute (lines 184 and 193): the connection called
SelfMutant(conn) == "parent"
Self(conn) == conn

\* Connection.cursor() (connection_compat.py lines 124-141)
Cursor(t, limit) ==
    /\ Idle(t)
    /\ ~closed
    /\ cursor = None
    /\ Started < limit
    /\ ops' = [ops EXCEPT ![t] = @ + 1]
    /\ cursor' = NewCursor
    /\ outcome' = [outcome EXCEPT ![t] = [op |-> "cursor", exc |-> NoException]]
    /\ UNCHANGED <<closed, task, registration, init_lock, cursor_lock,
                   hvars>>
    /\ UNCHANGED <<holder_factories, registered_objects, views, factories, lock,
                   last_result, udtf_registry, enable_replacement_scan, stack, latest>>

\* cursor.execute(q): ConnectionAPI.execute (lines 176-195) on the cursor, which
\* has no UDTFs, no replacement scan and nothing registered; its handle shares
\* the parent's database
CursorExecute(t, q, limit) ==
    /\ Idle(t)
    /\ cursor # None
    /\ Started < limit
    /\ ops' = [ops EXCEPT ![t] = @ + 1]
    /\ LET r == EngineCall(q, EmptyMap, <<>>)
           result == IF r.exc = NoException THEN r.result ELSE None
       IN /\ cursor' = IF Self("cursor") = "cursor"
                       THEN [cursor EXCEPT !.last_result = result] ELSE cursor
          /\ last_result' = IF Self("cursor") = "parent" THEN result ELSE last_result
          /\ outcome' = [outcome EXCEPT ![t] =
                [op |-> "cursor_execute", exc |-> r.exc, query |-> q,
                 result |-> result]]
    /\ UNCHANGED <<closed, task, registration, init_lock, cursor_lock,
                   hvars>>
    /\ UNCHANGED <<holder_factories, registered_objects, views, factories, lock,
                   udtf_registry, enable_replacement_scan, stack, latest>>

(***************************************************************************)
(* Inputs and specifications.                                              *)
(***************************************************************************)
TableA == ArrowTable("A")
TableB == ArrowTable("B")
Scoped == ArrowTable("S")

FreshConnection(reg, ers) ==
    /\ holder_factories = EmptyMap
    /\ registered_objects = EmptyMap
    /\ views = EmptyMap
    /\ factories = <<>>
    /\ lock = 0
    /\ last_result = None
    /\ udtf_registry = reg
    /\ enable_replacement_scan = ers
    /\ stack = [t \in Threads |-> <<>>]
    /\ ops = [t \in Threads |-> 0]
    /\ outcome = [t \in Threads |-> NoOutcome]
    /\ latest = EmptyMap
    /\ closed = FALSE
    /\ cursor = None
    /\ task = [t \in Threads |-> None]
    /\ registration = None
    /\ init_lock = 0
    /\ cursor_lock = 0

\* a fresh connection, and no holder under scan
Fresh(reg, ers) ==
    /\ FreshConnection(reg, ers)
    /\ scan_holder = None
    /\ scan_stream = None

\* _call and what it runs
CallStep(t) ==
    \/ CallAcquire(t)
    \/ CallRegister(t)
    \/ CallEngine(t)
    \/ CallUnregister(t)
    \/ CallReturn(t)

\* _preprocess and what it runs
PreprocessStep(t) ==
    \/ PreprocessParse(t)
    \/ PreprocessScan(t)
    \/ UdtfNone(t)
    \/ UdtfSkip(t)
    \/ UdtfInvokeTable(t)
    \/ UdtfInvokeRaise(t)
    \/ UdtfInvokeConn(t)
    \/ UdtfRewrite(t)

(* Spec: threads share one connection that has UDTFs registered and the    *)
(* replacement scan enabled; MaxOps executes are started in all.           *)
Calls ==
    { [query |-> <<"t">>, data |-> << <<"t", TableA>> >>, scope |-> <<>>],
      [query |-> <<"t">>, data |-> << <<"t", TableA>>, <<"u", NonArrow("o")>> >>,
       scope |-> <<>>],
      [query |-> <<"t">>, data |-> <<>>,
       scope |-> << [locals |-> [n \in {"t"} |-> Scoped], globals |-> EmptyMap] >>],
      [query |-> <<"q(5)">>, data |-> <<>>, scope |-> <<>>],
      [query |-> <<"x(5)">>, data |-> <<>>, scope |-> <<>>] }

Init == Fresh(SomeUdtfs, TRUE)

\* what a thread that is inside execute does next
Step(t) ==
    \/ PreprocessParse(t)
    \/ PreprocessScan(t)
    \/ UdtfInvokeRaise(t)
    \/ UdtfInvokeConn(t)
    \/ UdtfRewrite(t)
    \/ CallStep(t)

Next ==
    \E t \in Threads :
        \/ \E c \in Calls : ExecuteBegin(t, c.query, c.data, c.scope, MaxOps)
        \/ Step(t)

Spec == Init /\ [][Next]_vars

(* FairSpec: threads share one connection that has UDTFs registered and    *)
(* the replacement scan disabled, and every thread that can take a step    *)
(* eventually takes one (the interpreter schedules every runnable thread). *)
FairCalls == {c \in Calls : c.query \in {<<"q(5)">>, <<"x(5)">>}}

FairInit == Fresh(SomeUdtfs, FALSE)

FairStep(t) ==
    \/ PreprocessParse(t)
    \/ UdtfInvokeRaise(t)
    \/ UdtfInvokeConn(t)
    \/ UdtfRewrite(t)
    \/ CallStep(t)

FairNext ==
    \E t \in Threads :
        \/ \E c \in FairCalls : ExecuteBegin(t, c.query, c.data, c.scope, MaxOps)
        \/ FairStep(t)

FairSpec == FairInit /\ [][FairNext]_vars /\ \A t \in Threads : WF_vars(FairStep(t))

(* RegSpec: one caller works on the registry of a plain connection.        *)
RegNames == {"t", "u"}
RegObjects == {TableA, TableB, NonArrow("o")}
RegQueries == { <<"t">>, <<"t", "u">> }
RegExtraData == { <<>>, << <<"u", TableB>> >> }

RegInit == Fresh(EmptyMap, FALSE)

RegNext ==
    \/ \E n \in RegNames, o \in RegObjects, replace \in BOOLEAN, statsRaise \in BOOLEAN :
          Register(1, n, o, replace, statsRaise, MaxRegOps)
    \/ \E n \in RegNames : Unregister(1, n, MaxRegOps)
    \/ \E q \in RegQueries, d \in RegExtraData : ExecuteBegin(1, q, d, <<>>, MaxRegOps)
    \/ PreprocessFast(1)
    \/ CallStep(1)

RegSpec == RegInit /\ [][RegNext]_vars

(* CapSpec: one caller registers tables and fresh stream capsules with      *)
(* _register_arrow, queries the names and closes the connection.           *)
CapNames == {"t", "u"}
CapQueries == { <<"t">>, <<"u">>, <<"t", "u">> }

CapInit == Fresh(EmptyMap, FALSE)

CapNext ==
    \/ \E n \in CapNames, o \in {TableA, TableB} : RegisterArrowCall(1, n, o, MaxRegOps)
    \/ \E n \in CapNames : RegisterFreshCapsule(1, n, MaxRegOps)
    \/ \E n \in CapNames : Unregister(1, n, MaxRegOps)
    \/ Close(1, MaxRegOps)
    \/ \E q \in CapQueries, d \in RegExtraData : ExecuteBegin(1, q, d, <<>>, MaxRegOps)
    \/ PreprocessFast(1)
    \/ CallStep(1)

CapSpec == CapInit /\ [][CapNext]_vars

(* CurSpec: threads use a plain connection and the cursor made from it.     *)
CurQueries == { <<"b">>, <<"range(5)">>, <<"??">> }

CurInit == Fresh(EmptyMap, FALSE)

CurNext ==
    \E t \in Threads :
        \/ \E q \in CurQueries, d \in RegExtraData : ExecuteBegin(t, q, d, <<>>, MaxRegOps)
        \/ PreprocessFast(t)
        \/ CallStep(t)
        \/ Cursor(t, MaxRegOps)
        \/ \E q \in CurQueries : CursorExecute(t, q, MaxRegOps)

CurSpec == CurInit /\ [][CurNext]_vars

(* PreSpec: one execute on a fresh connection, for every configuration,    *)
(* query, extra data and caller scope.                                     *)
PreNames == {"t", "data"}

\* the caller's frames: every way one frame can bind the names
PreScopes ==
    { << [locals |-> l, globals |-> EmptyMap] >> :
         l \in UNION { [S -> {Scoped, NonArrow("o")}] : S \in SUBSET PreNames } }

PreQueries ==
    { <<"t">>, <<"data">>, <<"t", "b">>, <<"??">>,
      <<"f(5)">>, <<"f(m := 3, n := 5)">>, <<"q(5)">>,
      <<"f(5)", "f(5)">>, <<"q(5)", "x(5)">>, <<"t", "range(5)">> }

PreExtraData == { <<>>, << <<"t", TableA>> >> }

PreInit == \E reg \in {EmptyMap, SomeUdtfs}, ers \in BOOLEAN : Fresh(reg, ers)

PreNext ==
    \/ \E q \in PreQueries, d \in PreExtraData, sc \in PreScopes :
          ExecuteBegin(1, q, d, sc, 1)
    \/ PreprocessFast(1)
    \/ PreprocessStep(1)
    \/ CallStep(1)

PreSpec == PreInit /\ [][PreNext]_vars

(***************************************************************************)
(* Data holders (data_sources).  A column value is an integer, NULL or     *)
(* NaN; NULL and NaN are two integers outside the range of the data, NaN   *)
(* above every number, which is the engine's order of floating values.     *)
(* A Python None in a filter is NULL and a Python float('nan') is NaN.     *)
(***************************************************************************)
NULL == 0 - 9
NaN == 9

\* a Python list, and a Python dict in insertion order (a sequence of <<key, value>>)
PyList(items) == [kind |-> "list", items |-> items]
PyDict(items) == [kind |-> "dict", items |-> items]

IsNone(x) == x.kind = "None"

\* bool(x) of None, a list or a dict
Truthy(x) == ~IsNone(x) /\ x.items # <<>>

\* a field of a schema
Field(name, type) == [name |-> name, type |-> type]

\* schema.names
Names(schema) == [i \in 1..Len(schema) |-> schema[i].name]

\* schema.field(column_name).type
TypeOf(schema, column_name) ==
    (CHOOSE f \in {schema[i] : i \in 1..Len(schema)} : f.name = column_name).type

\* a frame (a table, a DataFrame, one collected LazyFrame): its schema, and its rows,
\* each a function from the column names to the values
Frame(schema, rows) == [schema |-> schema, rows |-> rows]

\* df.head(0), schema.empty_table()
EmptyFrame(df) == Frame(df.schema, <<>>)

\* df.select(columns), scanner(columns=columns): the columns in the order asked for
Select(df, columns) ==
    Frame([i \in 1..Len(columns) |-> Field(columns[i], TypeOf(df.schema, columns[i]))],
          [r \in 1..Len(df.rows) |->
              [n \in {columns[i] : i \in 1..Len(columns)} |-> df.rows[r][n]]])

\* _FilterType (both arrow_holder and polars_holder)
CONSTANT_COMPARISON == 0
IS_NULL == 1
IS_NOT_NULL == 2
CONJUNCTION_OR == 3
CONJUNCTION_AND == 4
STRUCT_EXTRACT == 5
OPTIONAL_FILTER == 6
IN_FILTER == 7
DYNAMIC_FILTER == 8

\* _ComparisonType (both arrow_holder and polars_holder)
EQUAL == 25
NOT_EQUAL == 26
LESS_THAN == 27
GREATER_THAN == 28
LESS_THAN_OR_EQUAL == 29
GREATER_THAN_OR_EQUAL == 30

\* the filter_info dicts the engine hands over
ConstantComparison(comparison, value) ==
    [type |-> CONSTANT_COMPARISON, comparison |-> comparison, value |-> value]
IsNullFilter == [type |-> IS_NULL]
IsNotNullFilter == [type |-> IS_NOT_NULL]
Conjunction(type, children) == [type |-> type, children |-> children]
InFilter(values) == [type |-> IN_FILTER, values |-> values]
StructExtract(child_idx, child_filter) ==
    [type |-> STRUCT_EXTRACT, child_idx |-> child_idx, child_filter |-> child_filter]
OptionalFilter == [type |-> OPTIONAL_FILTER]
DynamicFilter == [type |-> DYNAMIC_FILTER]

(***************************************************************************)
(* Native expressions (pyarrow.dataset.Expression, polars.Expr) and how    *)
(* the two libraries evaluate them on a row: to "T", "F" or "U" (null).    *)
(***************************************************************************)
\* ds.field(name), pl.col(name); path <<i>> is the struct child i (0-based)
FieldRef(name, path) == [col |-> name, path |-> path]

Scalar(b) == [op |-> "scalar", value |-> IF b THEN "T" ELSE "F"]
ExprIsNull(f) == [op |-> "is_null", field |-> f]
ExprIsNotNull(f) == [op |-> "is_not_null", field |-> f]
ExprIsNan(f) == [op |-> "is_nan", field |-> f]
ExprNot(e) == [op |-> "not", arg |-> e]
ExprAnd(l, r) == [op |-> "and", left |-> l, right |-> r]
ExprOr(l, r) == [op |-> "or", left |-> l, right |-> r]
ExprCompare(f, comparison, value) ==
    [op |-> "compare", field |-> f, comparison |-> comparison, value |-> value]
ExprIsIn(f, values) == [op |-> "is_in", field |-> f, values |-> values]

\* a translation that raised instead of returning an expression
Raised(what) == [op |-> "raise", what |-> what]
Raises(e) == e.op = "raise"

\* the value a field has in a row
FieldValue(row, f) ==
    IF f.path = <<>> THEN row[f.col] ELSE row[f.col][f.path[1] + 1]

Not3(a) == CASE a = "T" -> "F" [] a = "F" -> "T" [] OTHER -> "U"
And3(a, b) ==
    IF a = "F" \/ b = "F" THEN "F" ELSE IF a = "T" /\ b = "T" THEN "T" ELSE "U"
Or3(a, b) ==
    IF a = "T" \/ b = "T" THEN "T" ELSE IF a = "F" /\ b = "F" THEN "F" ELSE "U"
Bool3(b) == IF b THEN "T" ELSE "F"

\* comparison of two values that are neither NULL nor, for IEEE, NaN; with NaN the
\* greatest value this is the engine's order (and Polars' total order of floats)
Ordered(comparison, v, c) ==
    CASE comparison = EQUAL -> v = c
      [] comparison = NOT_EQUAL -> v # c
      [] comparison = LESS_THAN -> v < c
      [] comparison = LESS_THAN_OR_EQUAL -> v <= c
      [] comparison = GREATER_THAN -> v > c
      [] comparison = GREATER_THAN_OR_EQUAL -> v >= c

\* the engine: v comparison c, NULL when either side is NULL, NaN the greatest value
SqlCompare(comparison, v, c) ==
    IF v = NULL \/ c = NULL THEN "U" ELSE Bool3(Ordered(comparison, v, c))

\* pyarrow.compute comparisons are IEEE 754: with a NaN on either side only != holds;
\* Polars compares floats in a total order where NaN equals NaN and is the greatest
NativeCompare(lib, comparison, v, c) ==
    IF v = NULL \/ c = NULL THEN "U"
    ELSE IF lib = "arrow" /\ (v = NaN \/ c = NaN) THEN Bool3(comparison = NOT_EQUAL)
    ELSE Bool3(Ordered(comparison, v, c))

RECURSIVE Eval(_, _, _)
Eval(lib, e, row) ==
    CASE e.op = "scalar" -> e.value
      [] e.op = "is_null" -> Bool3(FieldValue(row, e.field) = NULL)
      [] e.op = "is_not_null" -> Bool3(FieldValue(row, e.field) # NULL)
      [] e.op = "is_nan" ->
            IF FieldValue(row, e.field) = NULL THEN "U"
            ELSE Bool3(FieldValue(row, e.field) = NaN)
      [] e.op = "not" -> Not3(Eval(lib, e.arg, row))
      [] e.op = "and" -> And3(Eval(lib, e.left, row), Eval(lib, e.right, row))
      [] e.op = "or" -> Or3(Eval(lib, e.left, row), Eval(lib, e.right, row))
      [] e.op = "compare" ->
            NativeCompare(lib, e.comparison, FieldValue(row, e.field), e.value)
      [] e.op = "is_in" ->
            IF FieldValue(row, e.field) = NULL
            THEN (IF lib = "arrow" THEN "F" ELSE "U")
            ELSE Bool3(\E i \in 1..Len(e.values) :
                          NativeCompare(lib, EQUAL, FieldValue(row, e.field),
                                        e.values[i]) = "T")

\* scanner(filter=expr), df.filter(expr): the rows on which expr is true
FilterRows(lib, df, expr) ==
    Frame(df.schema, SelectSeq(df.rows, LAMBDA row : Eval(lib, expr, row) = "T"))

(***************************************************************************)
(* arrow_holder: the translation of a filter map to a dataset expression.  *)
(***************************************************************************)
\* a column type is one of these names; pa.types.is_floating(column_type)
IsFloating(column_type) == column_type = "double"

\* _is_supported_filter_type
IsSupportedFilterType(column_type) ==
    IF column_type \in {"string_view", "binary_view", "large_string_view",
                        "large_binary_view", "decimal", "binary", "struct", "list", "map"}
    THEN FALSE
    ELSE column_type \in {"bool", "int64", "double", "string", "date", "timestamp"}

\* _convert_value_for_type: None stays None, a number for a numeric column is passed
\* through (the date and timestamp conversions need columns this model does not have)
ConvertValueForType(value, column_type) ==
    IF value = NULL THEN NULL ELSE value

\* _is_nan
IsNan(value) == value = NaN

Comparisons ==
    {EQUAL, NOT_EQUAL, LESS_THAN, GREATER_THAN, LESS_THAN_OR_EQUAL, GREATER_THAN_OR_EQUAL}

\* arrow_holder._apply_comparison
ArrowApplyComparison(field, comparison, value, column_type) ==
    IF value = NULL THEN Raised("UnsupportedFilter")
    ELSE LET converted_value == ConvertValueForType(value, column_type)
         IN IF converted_value = NULL THEN Raised("UnsupportedFilter")
            ELSE IF IsFloating(column_type) /\ IsNan(converted_value)
                    /\ comparison \in Comparisons
            THEN CASE comparison = EQUAL -> ExprIsNan(field)
                   [] comparison = NOT_EQUAL -> ExprNot(ExprIsNan(field))
                   [] comparison = GREATER_THAN -> Scalar(FALSE)
                   [] comparison = LESS_THAN -> ExprNot(ExprIsNan(field))
                   [] comparison = GREATER_THAN_OR_EQUAL -> ExprIsNan(field)
                   [] comparison = LESS_THAN_OR_EQUAL -> Scalar(TRUE)
            ELSE IF comparison \in Comparisons
            THEN ExprCompare(field, comparison, converted_value)
            ELSE Scalar(TRUE)

RECURSIVE ArrowTranslateSingleFilter(_, _, _)
RECURSIVE ArrowTranslateChildren(_, _, _, _, _, _)

\* the loop over children[1:] of a conjunction; an exception of a child ends it
ArrowTranslateChildren(children, i, result, type, column_name, column_type) ==
    IF i > Len(children) \/ Raises(result) THEN result
    ELSE LET child == ArrowTranslateSingleFilter(children[i], column_name, column_type)
         IN IF Raises(child) THEN child
            ELSE ArrowTranslateChildren(children, i + 1,
                    IF type = CONJUNCTION_AND THEN ExprAnd(result, child)
                    ELSE ExprOr(result, child),
                    type, column_name, column_type)

\* arrow_holder._translate_single_filter
ArrowTranslateSingleFilter(filter_info, column_name, column_type) ==
    LET filter_type == filter_info.type
        field == FieldRef(column_name, <<>>)
    IN CASE filter_type = CONSTANT_COMPARISON ->
               ArrowApplyComparison(field, filter_info.comparison, filter_info.value,
                                    column_type)
         [] filter_type = IS_NULL -> ExprIsNull(field)
         [] filter_type = IS_NOT_NULL -> ExprNot(ExprIsNull(field))
         [] filter_type \in {CONJUNCTION_AND, CONJUNCTION_OR} ->
               IF filter_info.children = <<>>
               THEN Scalar(filter_type = CONJUNCTION_AND)
               ELSE ArrowTranslateChildren(filter_info.children, 2,
                       ArrowTranslateSingleFilter(filter_info.children[1], column_name,
                                                  column_type),
                       filter_type, column_name, column_type)
         [] filter_type = IN_FILTER ->
               IF filter_info.values = <<>> THEN Scalar(FALSE)
               ELSE IF \E i \in 1..Len(filter_info.values) :
                          ConvertValueForType(filter_info.values[i], column_type) = NULL
               THEN Raised("UnsupportedFilter")
               ELSE ExprIsIn(field,
                       [i \in 1..Len(filter_info.values) |->
                           ConvertValueForType(filter_info.values[i], column_type)])
         [] OTHER -> Scalar(TRUE)

\* _translate_filters_to_dataset, the loop over filters.items() from item i on
RECURSIVE ArrowTranslateItems(_, _, _, _, _)
ArrowTranslateItems(items, i, result, column_names, schema) ==
    IF i > Len(items) THEN result
    ELSE LET col_idx == items[i][1]
             filter_info == items[i][2]
         IN IF col_idx >= Len(column_names)
            THEN ArrowTranslateItems(items, i + 1, result, column_names, schema)
            ELSE LET column_name == column_names[col_idx + 1]
                     column_type == TypeOf(schema, column_name)
                     expr == ArrowTranslateSingleFilter(filter_info, column_name,
                                                        column_type)
                 IN IF ~IsSupportedFilterType(column_type) \/ Raises(expr)
                    THEN ArrowTranslateItems(items, i + 1, result, column_names, schema)
                    ELSE ArrowTranslateItems(items, i + 1,
                            IF result = None THEN expr ELSE ExprAnd(result, expr),
                            column_names, schema)

\* _translate_filters_to_dataset
TranslateFiltersToDataset(filters, column_names, schema) ==
    IF ~Truthy(filters) THEN None
    ELSE ArrowTranslateItems(filters.items, 1, None, column_names, schema)

(***************************************************************************)
(* polars_holder: the translation of a filter map to a Polars expression.  *)
(***************************************************************************)
\* _translate_nan_comparison
TranslateNanComparison(comparison, col) ==
    CASE comparison = EQUAL -> ExprIsNan(col)
      [] comparison = NOT_EQUAL -> ExprNot(ExprIsNan(col))
      [] comparison = GREATER_THAN_OR_EQUAL -> ExprIsNan(col)
      [] comparison = LESS_THAN -> ExprNot(ExprIsNan(col))
      [] comparison = GREATER_THAN -> Scalar(FALSE)
      [] comparison = LESS_THAN_OR_EQUAL -> Scalar(TRUE)
      [] OTHER -> Scalar(TRUE)

\* polars_holder._apply_comparison
PolarsApplyComparison(col, comparison, value) ==
    IF comparison \in Comparisons THEN ExprCompare(col, comparison, value)
    ELSE Scalar(TRUE)

\* _translate_filter_with_expr: a filter on a struct field
TranslateFilterWithExpr(filter_info, expr) ==
    LET filter_type == filter_info.type
    IN CASE filter_type = CONSTANT_COMPARISON ->
               IF IsNan(filter_info.value)
               THEN CASE filter_info.comparison = EQUAL -> ExprIsNan(expr)
                      [] filter_info.comparison = NOT_EQUAL -> ExprNot(ExprIsNan(expr))
                      [] OTHER -> Scalar(TRUE)
               ELSE PolarsApplyComparison(expr, filter_info.comparison, filter_info.value)
         [] filter_type = IS_NULL -> ExprIsNull(expr)
         [] filter_type = IS_NOT_NULL -> ExprIsNotNull(expr)
         [] OTHER -> Scalar(TRUE)

RECURSIVE PolarsTranslateSingleFilter(_, _)
RECURSIVE PolarsTranslateChildren(_, _, _, _, _)

\* the loop over children[1:] of a conjunction
PolarsTranslateChildren(children, i, result, type, column_name) ==
    IF i > Len(children) THEN result
    ELSE PolarsTranslateChildren(children, i + 1,
            IF type = CONJUNCTION_AND
            THEN ExprAnd(result, PolarsTranslateSingleFilter(children[i], column_name))
            ELSE ExprOr(result, PolarsTranslateSingleFilter(children[i], column_name)),
            type, column_name)

\* polars_holder._translate_single_filter
PolarsTranslateSingleFilter(filter_info, column_name) ==
    LET filter_type == filter_info.type
        col == FieldRef(column_name, <<>>)
    IN CASE filter_type = CONSTANT_COMPARISON ->
               IF IsNan(filter_info.value)
               THEN TranslateNanComparison(filter_info.comparison, col)
               ELSE PolarsApplyComparison(col, filter_info.comparison, filter_info.value)
         [] filter_type = IS_NULL -> ExprIsNull(col)
         [] filter_type = IS_NOT_NULL -> ExprIsNotNull(col)
         [] filter_type \in {CONJUNCTION_AND, CONJUNCTION_OR} ->
               IF filter_info.children = <<>>
               THEN Scalar(filter_type = CONJUNCTION_AND)
               ELSE PolarsTranslateChildren(filter_info.children, 2,
                       PolarsTranslateSingleFilter(filter_info.children[1], column_name),
                       filter_type, column_name)
         [] filter_type = STRUCT_EXTRACT ->
               IF filter_info.child_filter = None THEN Scalar(TRUE)
               ELSE TranslateFilterWithExpr(filter_info.child_filter,
                       FieldRef(column_name, <<filter_info.child_idx>>))
         [] filter_type = IN_FILTER ->
               IF filter_info.values = <<>> THEN Scalar(FALSE)
               ELSE ExprIsIn(col, filter_info.values)
         [] OTHER -> Scalar(TRUE)

\* _translate_filters_to_polars, the loop over filters.items() from item i on
RECURSIVE PolarsTranslateItems(_, _, _, _)
PolarsTranslateItems(items, i, result, column_names) ==
    IF i > Len(items) THEN result
    ELSE LET col_idx == items[i][1]
         IN IF col_idx >= Len(column_names)
            THEN PolarsTranslateItems(items, i + 1, result, column_names)
            ELSE LET expr == PolarsTranslateSingleFilter(items[i][2],
                                                         column_names[col_idx + 1])
                 IN PolarsTranslateItems(items, i + 1,
                       IF result = None THEN expr ELSE ExprAnd(result, expr),
                       column_names)

\* _translate_filters_to_polars
TranslateFiltersToPolars(filters, column_names) ==
    IF ~Truthy(filters) THEN None
    ELSE PolarsTranslateItems(filters.items, 1, None, column_names)

(***************************************************************************)
(* The holders.  A holder is its variant, its data (the table of an        *)
(* ArrowHolder, the frame of a PolarsHolder, what the plan of a            *)
(* PolarsLazyHolder collects to) and the frame a lazy holder has cached.   *)
(***************************************************************************)
Holder(variant, data) == [variant |-> variant, data |-> data, cached_df |-> None]

\* what a call on a holder gives: the returned stream and the holder afterwards
Produced(result, h) == [result |-> result, holder |-> h]

\* ArrowHolder.produce_filtered
ArrowProduceFiltered(h, projected_columns, filters) ==
    IF IsNone(projected_columns) /\ IsNone(filters)
    THEN Produced(EmptyFrame(h.data), h)
    ELSE LET filter_expr ==
                 IF Truthy(filters)
                 THEN TranslateFiltersToDataset(filters, Names(h.data.schema),
                                                h.data.schema)
                 ELSE None
             scanned == IF filter_expr = None THEN h.data
                        ELSE FilterRows("arrow", h.data, filter_expr)
         IN Produced(IF IsNone(projected_columns) THEN scanned
                     ELSE Select(scanned, projected_columns.items), h)

\* PolarsHolder.produce_filtered
PolarsProduceFiltered(h, projected_columns, filters) ==
    IF IsNone(projected_columns) /\ IsNone(filters)
    THEN Produced(EmptyFrame(h.data), h)
    ELSE LET filter_expr ==
                 IF Truthy(filters)
                 THEN TranslateFiltersToPolars(filters, Names(h.data.schema))
                 ELSE None
             df == IF filter_expr = None THEN h.data
                   ELSE FilterRows("polars", h.data, filter_expr)
         IN Produced(IF Truthy(projected_columns)
                     THEN Select(df, projected_columns.items) ELSE df, h)

\* PolarsLazyHolder.produce_filtered; `collected` is the plan the call collected:
\* head(0) of the plan, the plan, the filtered plan, or nothing (the cache answered)
PolarsLazyProduceFiltered(h, projected_columns, filters) ==
    IF IsNone(projected_columns) /\ IsNone(filters)
    THEN Produced(EmptyFrame(h.data), h) @@ [collected |-> "head"]
    ELSE LET filter_expr ==
                 IF Truthy(filters)
                 THEN TranslateFiltersToPolars(filters, Names(h.data.schema))
                 ELSE None
             filters_pushed == filter_expr # None
             df == IF ~filters_pushed /\ h.cached_df # None THEN h.cached_df
                   ELSE IF filters_pushed THEN FilterRows("polars", h.data, filter_expr)
                   ELSE h.data
             after == IF ~filters_pushed /\ h.cached_df = None
                      THEN [h EXCEPT !.cached_df = df] ELSE h
         IN Produced(IF Truthy(projected_columns)
                     THEN Select(df, projected_columns.items) ELSE df, after)
               @@ [collected |-> IF ~filters_pushed /\ h.cached_df # None THEN "cache"
                                 ELSE IF filters_pushed THEN "filtered"
                                 ELSE "plan"]

\* holder.produce_filtered(projected_columns, filters)
ProduceFiltered(h, projected_columns, filters) ==
    CASE h.variant = "Arrow" -> ArrowProduceFiltered(h, projected_columns, filters)
      [] h.variant = "PolarsEager" -> PolarsProduceFiltered(h, projected_columns, filters)
      [] h.variant = "PolarsLazy" ->
            PolarsLazyProduceFiltered(h, projected_columns, filters)

\* a caller invokes produce_filtered on the holder
ProduceFilteredCall(projected_columns, filters) ==
    /\ scan_holder # None
    /\ LET p == ProduceFiltered(scan_holder, projected_columns, filters)
       IN /\ scan_holder' = p.holder
          /\ scan_stream' = [op |-> "produce_filtered",
                             projected_columns |-> projected_columns,
                             filters |-> filters,
                             before |-> scan_holder,
                             result |-> p.result,
                             collected |-> IF "collected" \in DOMAIN p
                                           THEN p.collected ELSE "none"]
    /\ UNCHANGED cvars

(* HolderSpec: a holder of any variant over any small frame is asked for   *)
(* streams, with any projection and any filter map, any number of times.   *)
MaxRows == 2

\* the values of the floating column
FloatValues == {NULL, NaN, 0, 1}

RECURSIVE SeqsUpTo(_, _)
SeqsUpTo(S, n) ==
    IF n = 0 THEN {<<>>}
    ELSE SeqsUpTo(S, n - 1)
            \cup {Append(s, x) : s \in {q \in SeqsUpTo(S, n - 1) : Len(q) = n - 1}, x \in S}

\* column a is floating, column b counts the rows, column s is a struct whose only
\* child is a's value
HolderSchema == <<Field("a", "double"), Field("b", "int64"), Field("s", "struct")>>

HolderFrames ==
    { Frame(HolderSchema, [i \in 1..Len(vs) |-> [a |-> vs[i], b |-> i, s |-> <<vs[i]>>]]) :
         vs \in SeqsUpTo(FloatValues, MaxRows) }

HolderVariants == {"Arrow", "PolarsEager", "PolarsLazy"}

Projections ==
    { None, PyList(<<>>), PyList(<<"a">>), PyList(<<"b", "a">>), PyList(<<"s", "b">>) }

\* filter trees for the floating column
LeafFilters ==
    { ConstantComparison(c, v) : c \in Comparisons, v \in {0, NaN} }
        \cup { IsNullFilter, IsNotNullFilter, InFilter(<<>>), InFilter(<<0, 1>>),
               OptionalFilter, DynamicFilter }

TreeFilters ==
    { Conjunction(CONJUNCTION_AND, <<>>), Conjunction(CONJUNCTION_OR, <<>>),
      Conjunction(CONJUNCTION_AND,
                  <<ConstantComparison(EQUAL, NaN), ConstantComparison(GREATER_THAN, 0)>>),
      Conjunction(CONJUNCTION_AND,
                  <<ConstantComparison(GREATER_THAN_OR_EQUAL, 0), IsNotNullFilter>>),
      Conjunction(CONJUNCTION_OR,
                  <<ConstantComparison(LESS_THAN, 1), IsNullFilter>>),
      Conjunction(CONJUNCTION_OR,
                  <<ConstantComparison(EQUAL, 0), ConstantComparison(EQUAL, NaN)>>) }

\* filter trees for the struct column: a comparison of its child
StructFilters ==
    { StructExtract(0, ConstantComparison(c, NaN)) : c \in Comparisons }
        \cup { StructExtract(0, ConstantComparison(GREATER_THAN, 0)),
               StructExtract(0, IsNullFilter) }

FilterMaps ==
    { None, PyDict(<<>>) }
        \cup { PyDict(<< <<0, f>> >>) : f \in LeafFilters \cup TreeFilters }
        \cup { PyDict(<< <<2, f>> >>) : f \in StructFilters }
        \cup { PyDict(<< <<0, ConstantComparison(LESS_THAN, NaN)>>,
                         <<1, ConstantComparison(GREATER_THAN, 1)>> >>),
               PyDict(<< <<1, ConstantComparison(EQUAL, 1)>>,
                         <<3, ConstantComparison(EQUAL, 0)>> >>) }

HolderInit ==
    /\ FreshConnection(EmptyMap, FALSE)
    /\ scan_holder \in {Holder(v, df) : v \in HolderVariants, df \in HolderFrames}
    /\ scan_stream = None

\* the calls made: every projection with no filter, an empty filter map and one
\* filter, and every filter map with all columns and with a projection of two
HolderCalls ==
    { [projected_columns |-> P, filters |-> F] :
         P \in Projections,
         F \in {None, PyDict(<<>>), PyDict(<< <<0, ConstantComparison(EQUAL, 0)>> >>)} }
        \cup { [projected_columns |-> P, filters |-> F] :
                  P \in {None, PyList(<<"b", "a">>)}, F \in FilterMaps }

HolderNext ==
    \E c \in HolderCalls : ProduceFilteredCall(c.projected_columns, c.filters)

HolderSpec == HolderInit /\ [][HolderNext]_vars

(***************************************************************************)
(* Statistics (dataset.backend).  A frame given to compute_statistics has  *)
(* its rows laid out in chunks: chunks is the sequence of chunk lengths.   *)
(***************************************************************************)
ChunkedFrame(schema, rows, chunks) == [schema |-> schema, rows |-> rows, chunks |-> chunks]

PyBool(b) == [kind |-> "bool", value |-> b]
PyStr(s) == [kind |-> "str", value |-> s]

RECURSIVE SumSeq(_, _)
SumSeq(s, n) == IF n = 0 THEN 0 ELSE s[n] + SumSeq(s, n - 1)

\* table.column(idx): the chunks of the column, each the sequence of its values
ColumnChunks(df, name) ==
    [k \in 1..Len(df.chunks) |->
        [j \in 1..df.chunks[k] |-> df.rows[SumSeq(df.chunks, k - 1) + j][name]]]

\* the values of a chunk that are not null
ValidValues(chunk) == {chunk[j] : j \in 1..Len(chunk)} \ {NULL}

MinOf(S) == CHOOSE x \in S : \A y \in S : x <= y
MaxOf(S) == CHOOSE x \in S : \A y \in S : x >= y

\* pc.min_max(col), col.min() / col.max(): over the valid values of all chunks, the
\* minimum of the chunks' minima and the maximum of their maxima; None without values
MinMax(col) ==
    LET valid == {k \in 1..Len(col) : ValidValues(col[k]) # {}}
    IN IF valid = {} THEN [min |-> NULL, max |-> NULL]
       ELSE [min |-> MinOf({MinOf(ValidValues(col[k])) : k \in valid}),
             max |-> MaxOf({MaxOf(ValidValues(col[k])) : k \in valid})]

\* col.null_count
NullCount(col) ==
    SumSeq([k \in 1..Len(col) |-> Cardinality({j \in 1..Len(col[k]) : col[k][j] = NULL})],
           Len(col))

\* pc.any(pc.is_nan(col)), col.is_nan().any()
AnyNan(col) == \E k \in 1..Len(col) : \E j \in 1..Len(col[k]) : col[k][j] = NaN

\* A timestamp value counts ticks since the epoch, TicksPerSecond of them to the
\* second (1_000_000 in the code).  datetime.timestamp() gives the seconds as a
\* binary floating-point number: the nearest multiple of 2^-FractionBits.
TicksPerSecond == 10
FractionBits == 4

RECURSIVE Pow2(_)
Pow2(n) == IF n = 0 THEN 1 ELSE 2 * Pow2(n - 1)

\* min_val.timestamp(), in units of 2^-FractionBits seconds (round to nearest)
TimestampSeconds(ticks) ==
    (2 * ticks * Pow2(FractionBits) + TicksPerSecond) \div (2 * TicksPerSecond)

\* int(min_val.timestamp() * 1_000_000): int() truncates the product
TimestampMicros(ticks) ==
    (TimestampSeconds(ticks) * TicksPerSecond) \div Pow2(FractionBits)

\* _make_stats_tuple; the frames of the model have no string column
MakeStatsTuple(idx, type_tag, null_count, num_rows, min_int, max_int, min_double, max_double) ==
    [idx |-> idx, type_tag |-> type_tag, null_count |-> null_count, num_rows |-> num_rows,
     min_int |-> min_int, max_int |-> max_int,
     min_double |-> min_double, max_double |-> max_double,
     max_str_len |-> 0, min_str |-> "", max_str |-> ""]

\* schema.get_field_index(name), df.columns.index(name): 0-based
FieldIndex(schema, name) == (CHOOSE i \in 1..Len(schema) : schema[i].name = name) - 1

\* _get_numeric_columns
GetNumericColumns(data) ==
    SelectSeq(Names(data.schema),
              LAMBDA n : TypeOf(data.schema, n) \in {"int64", "double", "date", "timestamp"})

\* pattern.match(name) for a pattern of literal characters: name starts with it
PatternMatch(pattern, name) ==
    Len(name) >= Len(pattern) /\ SubSeq(name, 1, Len(pattern)) = pattern

\* _resolve_statistics_columns: None, True or a list of names
ResolveStatisticsColumns(data, statistics) ==
    CASE statistics.kind = "None" -> None
      [] statistics.kind = "bool" -> IF statistics.value THEN PyBool(TRUE) ELSE None
      [] statistics.kind = "list" -> statistics
      [] statistics.kind = "str" ->
            LET cols == IF statistics.value = "numeric" THEN GetNumericColumns(data)
                        ELSE SelectSeq(Names(data.schema),
                                       LAMBDA n : PatternMatch(statistics.value, n))
            IN IF cols # <<>> THEN PyList(cols) ELSE None

\* `if not resolved`
NotResolved(resolved) ==
    resolved.kind = "None" \/ (resolved.kind = "list" /\ resolved.items = <<>>)

\* the NaN check of a floating column: lines 374-376 (Arrow), 311-313 (Polars)
SkipsNanMutant(column_type, col) == FALSE
SkipsNan(column_type, col) == IsFloating(column_type) /\ AnyNan(col)

\* _compute_statistics_arrow lines 356-399 and _compute_statistics_polars lines
\* 297-336, one pass of the loop: the tuples the column adds to results
ColumnStatistics(variant, df, name) ==
    LET idx == FieldIndex(df.schema, name)
        col == ColumnChunks(df, name)
        type == TypeOf(df.schema, name)
        null_count == NullCount(col)
        num_rows == Len(df.rows)
        minmax == MinMax(col)
    IN IF variant = "Arrow" /\ type \in {"string_view", "binary_view"} THEN <<>>
       ELSE IF null_count = num_rows
       THEN << MakeStatsTuple(idx, "null", null_count, num_rows, 0, 0, 0, 0) >>
       ELSE IF SkipsNan(type, col) THEN <<>>
       ELSE IF minmax.min = NULL \/ minmax.max = NULL
       THEN << MakeStatsTuple(idx, "null", null_count, num_rows, 0, 0, 0, 0) >>
       ELSE CASE type = "int64" ->
                   << MakeStatsTuple(idx, "int", null_count, num_rows,
                                     minmax.min, minmax.max, 0, 0) >>
              [] type = "double" ->
                   << MakeStatsTuple(idx, "float", null_count, num_rows,
                                     0, 0, minmax.min, minmax.max) >>
              [] type = "timestamp" ->
                   << MakeStatsTuple(idx, "int", null_count, num_rows,
                                     TimestampMicros(minmax.min),
                                     TimestampMicros(minmax.max), 0, 0) >>
              [] OTHER -> <<>>

\* what a call gives: the list (or None) returned, or the exception raised
Returned(ret) == [exc |-> NoException, ret |-> ret]
Raising(what, name) == [exc |-> Exception("ValueError", what, name, NoException), ret |-> None]

\* the loop `for name in col_names` from name i on
RECURSIVE StatisticsLoop(_, _, _, _, _)
StatisticsLoop(variant, df, col_names, i, results) ==
    IF i > Len(col_names) THEN Returned(PyList(results))
    ELSE IF ~\E k \in 1..Len(df.schema) : df.schema[k].name = col_names[i]
    THEN Raising("ColumnNotFound", col_names[i])
    ELSE StatisticsLoop(variant, df, col_names, i + 1,
                        results \o ColumnStatistics(variant, df, col_names[i]))

\* _compute_statistics_arrow (variant "Arrow"), _compute_statistics_polars
ComputeStatisticsOf(variant, df, statistics) ==
    IF Len(df.rows) = 0 THEN Returned(PyList(<<>>))
    ELSE LET resolved == ResolveStatisticsColumns(df, statistics)
         IN IF NotResolved(resolved) THEN Returned(PyList(<<>>))
            ELSE StatisticsLoop(variant, df,
                    IF resolved.kind = "bool" THEN Names(df.schema) ELSE resolved.items,
                    1, <<>>)

\* compute_statistics(data, statistics)
ComputeStatistics(h, statistics) ==
    IF IsNone(statistics) THEN Returned(None)
    ELSE IF h.variant = "PolarsEager" THEN ComputeStatisticsOf("PolarsEager", h.data, statistics)
    ELSE ComputeStatisticsOf("Arrow", h.data, statistics)

\* a caller computes the statistics of the holder's frame
ComputeStatisticsCall(statistics) ==
    /\ scan_holder # None
    /\ scan_stream' = [op |-> "compute_statistics",
                       statistics |-> statistics,
                       before |-> scan_holder,
                       result |-> ComputeStatistics(scan_holder, statistics)]
    /\ UNCHANGED scan_holder
    /\ UNCHANGED cvars

\* _extract_pyarrow_statistics (the earlier extraction, a dict keyed by column name);
\* enabled is _statistics_enabled(), the BAREDUCKDB_ENABLE_STATISTICS switch
ExtractPyarrowStatistics(table, enabled) ==
    IF ~enabled THEN None
    ELSE LET kept == SelectSeq(Names(table.schema),
                        LAMBDA n :
                            /\ TypeOf(table.schema, n) \in {"int64", "double", "decimal"}
                            /\ ~SkipsNan(TypeOf(table.schema, n), ColumnChunks(table, n)))
         IN IF kept = <<>> THEN None
            ELSE PyDict([i \in 1..Len(kept) |->
                    << kept[i],
                       [min |-> MinMax(ColumnChunks(table, kept[i])).min,
                        max |-> MinMax(ColumnChunks(table, kept[i])).max,
                        null_count |-> NullCount(ColumnChunks(table, kept[i]))] >>])

\* a caller extracts the statistics of an Arrow table
ExtractStatisticsCall(enabled) ==
    /\ scan_holder # None
    /\ scan_holder.variant = "Arrow"
    /\ scan_stream' = [op |-> "extract_pyarrow_statistics",
                       statistics |-> PyBool(enabled),
                       before |-> scan_holder,
                       result |-> Returned(ExtractPyarrowStatistics(scan_holder.data,
                                                                    enabled))]
    /\ UNCHANGED scan_holder
    /\ UNCHANGED cvars

(* StatSpec: the statistics of any small chunked frame, Arrow or Polars,   *)
(* are computed under any statistics specification.                        *)
StatSchema == <<Field("a", "double"), Field("b", "int64"), Field("t", "timestamp")>>

\* column a is floating, column b counts down from MaxRows + 1, column t holds
\* timestamps: 7 ticks is no binary fraction of a second, 10 ticks is one second
StatFloatValues == {NULL, NaN, 1}
StatTimestampValues == {NULL, 7, 10}

\* the ways to lay n rows out in one or two chunks
ChunkLayouts(n) ==
    IF n = 0 THEN {<<>>} ELSE {<<n>>} \cup {<<k, n - k>> : k \in 1..(n - 1)}

StatFrames ==
    { ChunkedFrame(StatSchema,
                   [i \in 1..Len(vs) |->
                       [a |-> vs[i][1], b |-> MaxRows + 1 - i, t |-> vs[i][2]]],
                   layout) :
         vs \in SeqsUpTo(StatFloatValues \X StatTimestampValues, MaxRows),
         layout \in UNION {ChunkLayouts(n) : n \in 0..MaxRows} }

StatisticsSpecs ==
    { None, PyBool(TRUE), PyBool(FALSE), PyStr("numeric"), PyStr("a"), PyStr("z"),
      PyList(<<>>), PyList(<<"a">>), PyList(<<"t", "b">>), PyList(<<"b", "zz">>) }

StatInit ==
    /\ FreshConnection(EmptyMap, FALSE)
    /\ scan_holder \in {Holder(v, df) : v \in {"Arrow", "PolarsEager"},
                                        df \in {f \in StatFrames :
                                                   SumSeq(f.chunks, Len(f.chunks))
                                                       = Len(f.rows)}}
    /\ scan_stream = None

StatNext ==
    \/ \E statistics \in StatisticsSpecs : ComputeStatisticsCall(statistics)
    \/ \E enabled \in BOOLEAN : ExtractStatisticsCall(enabled)

StatSpec == StatInit /\ [][StatNext]_vars

(***************************************************************************)
(* Properties.                                                             *)
(***************************************************************************)
\* the frames of thread t's executes: the ones running and the last one finished
Frames(t) ==
    {stack[t][i] : i \in 1..Depth(t)}
        \cup (IF outcome[t].op = "execute" THEN {outcome[t].frame} ELSE {})

\* thread t's last top-level execute has returned or raised
Finished(t) == Depth(t) = 0 /\ outcome[t].op = "execute"

SeqToSet(s) == {s[i] : i \in 1..Len(s)}

\* C1: once register(name, t2, replace=true) has completed, a query on `name`
\* returns the rows of t2, the object of the latest completed registration of
\* that name, and not the rows of an object registered under the name before.
C1_QuerySeesLatestRegistration ==
    \A t \in Threads :
        (/\ At(t, "cleanup")
         /\ Top(t).engine_ran
         /\ Top(t).exc = NoException
         /\ Top(t).to_unregister = Top(t).registered)
        => \A i \in 1..Len(Top(t).query) :
              Top(t).query[i] \in DOMAIN latest
                 => Top(t).result.rows[i] = latest[Top(t).query[i]]

\* register("t", A), register("t", B, replace=true), then a query on t that got B
C1_Witness ==
    /\ At(1, "cleanup")
    /\ Top(1).engine_ran
    /\ Top(1).exc = NoException
    /\ Top(1).query = <<"t">>
    /\ Top(1).result.rows = <<TableB>>
    /\ Len(factories) = 2
    /\ factories[1] = [holder |-> TableA, deleted |-> 1]
    /\ holder_factories = [n \in {"t"} |-> <<2, TableB>>]

\* C2: register(name, holder, replace=false) on a name that is live fails with
\* NameInUse and changes nothing: the registry map, the engine's views and the
\* factories (none deleted, none added) are what they were before the call.
C2_NameInUseLeavesRegistry ==
    [][\A t \in Threads :
          (/\ ops'[t] # ops[t]
           /\ outcome'[t].op = "register"
           /\ ~outcome'[t].replace
           /\ ~outcome'[t].stats_raised
           /\ GetHolder(outcome'[t].data) # None
           /\ outcome'[t].name \in DOMAIN views)
          => /\ outcome'[t].exc.what = "NameInUse"
             /\ outcome'[t].exc.name = outcome'[t].name
             /\ holder_factories' = holder_factories
             /\ views' = views
             /\ factories' = factories]_vars

\* a refused register of a live name whose entry, view and factory are intact
C2_Witness ==
    /\ outcome[1].op = "register"
    /\ outcome[1].exc.what = "NameInUse"
    /\ outcome[1].name \in DOMAIN holder_factories
    /\ outcome[1].data # holder_factories[outcome[1].name][2]
    /\ views[outcome[1].name] = HolderView(holder_factories[outcome[1].name][1])
    /\ factories[holder_factories[outcome[1].name][1]].deleted = 0

\* C3: when the engine runs a query every binding of the query is registered,
\* and when execute returns or raises every binding it registered is
\* unregistered (no view, no kept capsule), also the ones registered before a
\* later binding failed to register.
C3_BindingsLiveOnlyDuringQuery ==
    /\ [](\A t \in Threads :
             (\/ At(t, "register")
              \/ (At(t, "cleanup") /\ Top(t).engine_ran
                                   /\ Top(t).to_unregister = Top(t).registered))
             => \A k \in DictKeys(Top(t).data) :
                   k \in DictKeys(Top(t).pending) \/ k \in DOMAIN views)
    /\ [][\A t \in Threads :
             Len(stack'[t]) < Len(stack[t])
             => \A k \in SeqToSet(Top(t).registered) :
                   k \notin DOMAIN views' /\ k \notin DOMAIN registered_objects']_vars

\* an execute whose second binding failed to register: the first is gone
C3_Witness ==
    /\ Finished(1)
    /\ outcome[1].exc.what = "NotACapsule"
    /\ outcome[1].frame.registered = <<"t">>
    /\ ~outcome[1].frame.engine_ran
    /\ "t" \notin DOMAIN views

\* C4: a thread that is registering bindings, running the engine or
\* unregistering holds the connection query lock from the first registration to
\* the last unregistration, so no two threads are in that section together.
C4_OneQueryInFlight ==
    \A t1, t2 \in Threads :
        LET InSection(t) == At(t, "register") \/ At(t, "cleanup") IN
        /\ InSection(t1) => lock = t1
        /\ t1 # t2 => ~(InSection(t1) /\ InSection(t2))

\* thread 1 unregisters after its engine run while thread 2 waits for the lock
C4_Witness ==
    /\ At(1, "cleanup")
    /\ Top(1).engine_ran
    /\ Top(1).to_unregister # <<>>
    /\ At(2, "call")
    /\ Top(2).data # <<>>

\* C5: a UDTF whose last parameter is `conn` is handed the connection and may
\* call execute on it while the outer execute preprocesses; every execute,
\* nested or outer, then ends (from some point on no thread is inside one),
\* and the outer one returns the rows of the table the UDTF returned.
C5_ConnUdtfReenters ==
    /\ <>[](\A t \in Threads : Depth(t) = 0)
    /\ [](\A t \in Threads :
             (/\ Finished(t)
              /\ outcome[t].frame.query0 = <<"q(5)">>)
             => LET fr == outcome[t].frame IN
                /\ outcome[t].exc = NoException
                /\ Len(fr.invoked) = 1
                /\ "conn" \in DOMAIN fr.invoked[1].kwargs
                /\ fr.result.rows = <<DictGet(fr.data, fr.gen[1])>>
                /\ fr.result.rows[1].rows = <<[kind |-> "base", id |-> "b"]>>)

\* both threads ran the query that calls q, and both got q's rows
C5_Witness ==
    \A t \in Threads :
        /\ Finished(t)
        /\ outcome[t].frame.query0 = <<"q(5)">>
        /\ outcome[t].exc = NoException
        /\ outcome[t].frame.result.rows[1].kind = "result"

\* C6: the replacement scan never overwrites an entry of the caller's extra
\* data: every key the caller supplied is still bound to the caller's object
\* in the bindings of the query.
C6_ExtraDataNotOverwritten ==
    \A t \in Threads : \A fr \in Frames(t) :
        \A k \in DictKeys(fr.data0) :
            k \in DictKeys(fr.data) /\ DictGet(fr.data, k) = DictGet(fr.data0, k)

\* C7: a table name bound only in the caller's scope to an Arrow-capable
\* object is among the query's bindings iff enable_replacement_scan is true; a
\* name bound to an object that is not Arrow-capable is never adopted; a name
\* that is not adopted makes the query fail with the engine's unknown-table
\* error naming it.
C7_ScopeBindingAdoptedIffEnabled ==
    \A t \in Threads :
        (Finished(t) /\ outcome[t].frame.pc = "done"
                     /\ "??" \notin SeqToSet(outcome[t].frame.query0))
        => LET fr == outcome[t].frame
               caller == fr.scope[1].locals
           IN \A n \in (SeqToSet(fr.query0) \cap DOMAIN caller)
                          \ (BaseTables \cup DictKeys(fr.data0)) :
                 LET adopted == n \in DictKeys(fr.data) IN
                 /\ HasArrowStream(caller[n]) => (adopted <=> enable_replacement_scan)
                 /\ ~HasArrowStream(caller[n]) => ~adopted
                 /\ ~adopted => /\ outcome[t].exc.what = "UnknownTable"
                                /\ outcome[t].exc.name = n

\* C8: preprocessing a query with n calls of registered UDTFs invokes a UDTF n
\* times and returns n bindings under n pairwise distinct transient names of
\* the form _udtf_<name>_<8-hex>.
C8_DistinctTransientNames ==
    \A t \in Threads :
        (Finished(t) /\ outcome[t].frame.pc = "done" /\ DOMAIN udtf_registry # {})
        => LET fr == outcome[t].frame
               udtf_calls == {i \in 1..Len(fr.calls) : fr.calls[i].name \in DOMAIN udtf_registry}
               n == Cardinality(udtf_calls)
               transient == DictKeys(fr.data) \ (DictKeys(fr.data0) \cup fr.table_refs)
           IN /\ Len(fr.invoked) = n
              /\ Cardinality(transient) = n
              /\ transient = SeqToSet(fr.gen)
              /\ \A g \in transient :
                    \E f \in DOMAIN udtf_registry, h \in HexIds :
                       g = "_udtf_" \o f \o "_" \o h

\* C9: when a registered UDTF raises during preprocessing, execute fails with
\* UdtfExecutionFailed naming the UDTF and wrapping the cause, the engine never
\* runs the user's query, no transient binding is left registered, and the
\* connection's last result is empty.
C9_UdtfFailureLeavesNothing ==
    \A t \in Threads :
        (Finished(t) /\ outcome[t].exc.what = "UdtfExecutionFailed")
        => LET fr == outcome[t].frame IN
           /\ outcome[t].exc.kind = "RuntimeError"
           /\ outcome[t].exc.name = fr.calls[fr.ci].name
           /\ outcome[t].exc.cause # ""
           /\ ~fr.engine_ran
           /\ \A g \in SeqToSet(fr.gen) :
                 g \notin DOMAIN views /\ g \notin DOMAIN registered_objects
           /\ last_result = None

\* C10: a UDTF call with named arguments invokes the callable with the
\* positional literals in source order and each named literal as the keyword
\* argument of that name.
C10_NamedArgumentsAsKeywords ==
    \A t \in Threads : \A fr \in Frames(t) :
        LET isUdtf(fn) == fn.name \in DOMAIN udtf_registry
            written == SelectSeq(EngineParse(fr.query0).functions, isUdtf)
        IN \A i \in 1..Len(fr.invoked) :
              LET isPositional(c) == c.alias = ""
                  positional == SelectSeq(written[i].children, isPositional)
                  named == {j \in 1..Len(written[i].children) :
                               written[i].children[j].alias # ""}
                  inv == fr.invoked[i]
              IN /\ inv.args = [j \in 1..Len(positional) |-> positional[j].value]
                 /\ DOMAIN inv.kwargs \ {"conn"} =
                       {written[i].children[j].alias : j \in named}
                 /\ \A j \in named :
                       inv.kwargs[written[i].children[j].alias] = written[i].children[j].value

\* a call of produce_filtered has returned
StreamReturned == scan_stream # None /\ scan_stream.op = "produce_filtered"

\* the projection of a schema by a list of column names
ProjectedSchema(schema, columns) ==
    [i \in 1..Len(columns) |-> Field(columns[i], TypeOf(schema, columns[i]))]

\* C11: for every holder variant (a lazy holder answering from its cache included),
\* every projection P and every filter map F, the stream produce_filtered(P, F)
\* returns has exactly the columns of P, in P's order, with the types of the
\* holder's schema; so for the empty list P, with F empty or absent, it has the
\* empty schema.
C11_StreamHasProjectedColumns ==
    (StreamReturned /\ ~IsNone(scan_stream.projected_columns)) =>
        scan_stream.result.schema
            = ProjectedSchema(scan_stream.before.data.schema,
                              scan_stream.projected_columns.items)

(* The engine's reading of a filter map (its own evaluation of the         *)
(* predicates it pushes down): SQL three-valued logic, NaN the greatest    *)
(* floating value.                                                         *)
RECURSIVE SqlEval(_, _)
RECURSIVE SqlEvalChildren(_, _, _, _)

SqlEvalChildren(children, i, type, v) ==
    IF i > Len(children) THEN Bool3(type = CONJUNCTION_AND)
    ELSE IF type = CONJUNCTION_AND
    THEN And3(SqlEval(children[i], v), SqlEvalChildren(children, i + 1, type, v))
    ELSE Or3(SqlEval(children[i], v), SqlEvalChildren(children, i + 1, type, v))

SqlEval(filter_info, v) ==
    CASE filter_info.type = CONSTANT_COMPARISON ->
            SqlCompare(filter_info.comparison, v, filter_info.value)
      [] filter_info.type = IS_NULL -> Bool3(v = NULL)
      [] filter_info.type = IS_NOT_NULL -> Bool3(v # NULL)
      [] filter_info.type \in {CONJUNCTION_AND, CONJUNCTION_OR} ->
            SqlEvalChildren(filter_info.children, 1, filter_info.type, v)
      [] filter_info.type = IN_FILTER ->
            IF v = NULL THEN "U"
            ELSE Bool3(\E i \in 1..Len(filter_info.values) : filter_info.values[i] = v)

\* the row satisfies every filter of the map
SqlSatisfies(filters, schema, row) ==
    Truthy(filters) =>
        \A i \in 1..Len(filters.items) :
            SqlEval(filters.items[i][2], row[schema[filters.items[i][1] + 1].name]) = "T"

\* a filter tree built from ConstantComparison, IsNull, IsNotNull, And, Or, In
RECURSIVE SupportedTree(_)
SupportedTree(filter_info) ==
    CASE filter_info.type \in {IS_NULL, IS_NOT_NULL} -> TRUE
      [] filter_info.type = CONSTANT_COMPARISON -> filter_info.value # NULL
      [] filter_info.type = IN_FILTER ->
            \A i \in 1..Len(filter_info.values) : filter_info.values[i] # NULL
      [] filter_info.type \in {CONJUNCTION_AND, CONJUNCTION_OR} ->
            \A i \in 1..Len(filter_info.children) : SupportedTree(filter_info.children[i])
      [] OTHER -> FALSE

\* a filter map of such trees on columns of the schema that pushdown handles
SupportedMap(filters, schema) ==
    Truthy(filters) =>
        \A i \in 1..Len(filters.items) :
            /\ filters.items[i][1] < Len(schema)
            /\ IsSupportedFilterType(schema[filters.items[i][1] + 1].type)
            /\ SupportedTree(filters.items[i][2])

\* the scan of a holder: the engine takes the stream of produce_filtered and is
\* entitled to apply any filter of the map to it again
ScanRows(call) ==
    SelectSeq(call.result.rows,
              LAMBDA row : SqlSatisfies(call.filters, call.before.data.schema, row))

\* C12: a scan of a holder with a supported filter map returns exactly the rows of
\* the holder that satisfy all the filters of the map under SQL null semantics: no
\* satisfying row is missing and no other row is present.
C12_ScanReturnsSatisfyingRows ==
    (/\ StreamReturned
     /\ IsNone(scan_stream.projected_columns)
     /\ ~IsNone(scan_stream.filters)
     /\ SupportedMap(scan_stream.filters, scan_stream.before.data.schema)) =>
        ScanRows(scan_stream)
            = SelectSeq(scan_stream.before.data.rows,
                        LAMBDA row : SqlSatisfies(scan_stream.filters,
                                                  scan_stream.before.data.schema, row))

\* the comparison with NaN a filter map consists of, if it is one: on a column
\* directly, or on the child of a struct column through a StructExtract
NanComparison(filters) ==
    LET f == filters.items[1][2]
    IN IF f.type = STRUCT_EXTRACT THEN f.child_filter ELSE f

IsNanComparison(filters, schema) ==
    /\ Truthy(filters)
    /\ Len(filters.items) = 1
    /\ filters.items[1][1] < Len(schema)
    /\ LET f == filters.items[1][2]
           type == schema[filters.items[1][1] + 1].type
       IN \/ f.type = CONSTANT_COMPARISON /\ IsFloating(type)
          \/ f.type = STRUCT_EXTRACT /\ type = "struct"
    /\ NanComparison(filters).type = CONSTANT_COMPARISON
    /\ NanComparison(filters).value = NaN
    /\ NanComparison(filters).comparison \in Comparisons

\* the value the comparison is about, in a row
ComparedValue(filters, schema, row) ==
    LET f == filters.items[1][2]
        v == row[schema[filters.items[1][1] + 1].name]
    IN IF f.type = STRUCT_EXTRACT THEN v[f.child_idx + 1] ELSE v

\* the predicate the holder's translator produces for the map (None: none produced)
TranslatedPredicate(h, filters) ==
    IF h.variant = "Arrow"
    THEN TranslateFiltersToDataset(filters, Names(h.data.schema), h.data.schema)
    ELSE TranslateFiltersToPolars(filters, Names(h.data.schema))

\* what `value comparison NaN` is for a value that is not NULL, NaN being greater
\* than all other values
NanSelects(comparison, v) ==
    CASE comparison = EQUAL -> v = NaN
      [] comparison = NOT_EQUAL -> v # NaN
      [] comparison = GREATER_THAN -> FALSE
      [] comparison = GREATER_THAN_OR_EQUAL -> v = NaN
      [] comparison = LESS_THAN -> v # NaN
      [] comparison = LESS_THAN_OR_EQUAL -> TRUE

\* C13: on a float column the predicate produced for `col op NaN` selects, among
\* the rows with a value: for EQ exactly the NaN rows, for NE exactly the non-NaN
\* rows, for GT no row, for GE exactly the NaN rows, for LT exactly the non-NaN
\* rows, for LE every row; in the Arrow and in the Polars translator, also when the
\* comparison is the child filter of a StructExtract.
C13_NanComparisonSelects ==
    (/\ StreamReturned
     /\ IsNone(scan_stream.projected_columns)
     /\ IsNanComparison(scan_stream.filters, scan_stream.before.data.schema)
     /\ TranslatedPredicate(scan_stream.before, scan_stream.filters) # None) =>
        LET F == scan_stream.filters
            schema == scan_stream.before.data.schema
            HasValue(row) == ComparedValue(F, schema, row) # NULL
        IN SelectSeq(scan_stream.result.rows, HasValue)
              = SelectSeq(scan_stream.before.data.rows,
                          LAMBDA row : /\ HasValue(row)
                                       /\ NanSelects(NanComparison(F).comparison,
                                                     ComparedValue(F, schema, row)))

\* a call of compute_statistics has returned a list of tuples
StatisticsReturned ==
    /\ scan_stream # None
    /\ scan_stream.op = "compute_statistics"
    /\ scan_stream.result.exc = NoException
    /\ scan_stream.result.ret.kind = "list"

\* the tuples of the list
StatisticsTuples ==
    {scan_stream.result.ret.items[i] : i \in 1..Len(scan_stream.result.ret.items)}

\* the values of the column a tuple is about
TupleValues(tuple) ==
    LET df == scan_stream.before.data
    IN {df.rows[i][df.schema[tuple.idx + 1].name] : i \in 1..Len(df.rows)}

\* C14: a tuple compute_statistics emits for a column has the column's true null
\* count and the frame's row count, and every non-null value of the column lies
\* between its min and its max, which cover all chunks of the column.
C14_StatisticsSound ==
    StatisticsReturned =>
        \A tuple \in StatisticsTuples :
            /\ tuple.num_rows = Len(scan_stream.before.data.rows)
            /\ tuple.null_count
                  = Cardinality({i \in 1..Len(scan_stream.before.data.rows) :
                        scan_stream.before.data.rows[i]
                            [scan_stream.before.data.schema[tuple.idx + 1].name] = NULL})
            /\ \A v \in TupleValues(tuple) \ {NULL} :
                  /\ tuple.type_tag = "int" => tuple.min_int <= v /\ v <= tuple.max_int
                  /\ tuple.type_tag = "float" =>
                        tuple.min_double <= v /\ v <= tuple.max_double

\* the floating columns of the frame that contain a NaN
NanColumns(df) ==
    {k \in 1..Len(df.schema) :
        /\ IsFloating(df.schema[k].type)
        /\ \E i \in 1..Len(df.rows) : df.rows[i][df.schema[k].name] = NaN}

\* the columns the statistics specification asks for
AskedColumns(df, statistics) ==
    LET resolved == ResolveStatisticsColumns(df, statistics)
    IN IF resolved.kind = "None" THEN {}
       ELSE IF resolved.kind = "bool" THEN 1..Len(df.schema)
       ELSE {k \in 1..Len(df.schema) :
                \E i \in 1..Len(resolved.items) : resolved.items[i] = df.schema[k].name}

\* C15: compute_statistics emits no tuple for a floating column that contains a
\* NaN, whatever the statistics specification (all, numeric, a pattern, a list) and
\* for Arrow tables and Polars frames alike, and every other column asked for (of
\* a frame that has rows) still has its tuple; the earlier extraction of Arrow statistics has no entry for such a
\* column either.
C15_NoStatisticsForNanColumn ==
    /\ StatisticsReturned =>
          LET df == scan_stream.before.data
          IN /\ \A tuple \in StatisticsTuples : (tuple.idx + 1) \notin NanColumns(df)
             /\ Len(df.rows) > 0 =>
                   \A k \in AskedColumns(df, scan_stream.statistics) \ NanColumns(df) :
                       \E tuple \in StatisticsTuples : tuple.idx + 1 = k
    /\ (/\ scan_stream # None
        /\ scan_stream.op = "extract_pyarrow_statistics"
        /\ scan_stream.result.ret.kind = "dict") =>
          \A i \in 1..Len(scan_stream.result.ret.items) :
              \A k \in NanColumns(scan_stream.before.data) :
                  scan_stream.result.ret.items[i][1]
                      # scan_stream.before.data.schema[k].name

\* statistics were asked for all columns of a frame whose floating column has a NaN
\* next to a number, and the other columns have their tuples
C15_Witness ==
    /\ StatisticsReturned
    /\ scan_stream.statistics = PyBool(TRUE)
    /\ NanColumns(scan_stream.before.data) = {1}
    /\ \E i \in 1..Len(scan_stream.before.data.rows) :
          scan_stream.before.data.rows[i].a = 1
    /\ {tuple.idx : tuple \in StatisticsTuples} = {1, 2}

(***************************************************************************)
(* C16  A name registered from a single-use stream capsule is scanned by   *)
(* at most one query: the query that scans it first returns the capsule's  *)
(* data and uses the stream up, and every query on the name after that     *)
(* fails with StreamAlreadyConsumed; a name registered from a table        *)
(* returns the table's rows to every query, however many came before.      *)
(***************************************************************************)
\* the engine runs the query of thread 1, which reads name n
EngineRuns(n) ==
    /\ At(1, "register")
    /\ Top(1).pending = <<>>
    /\ Top(1).query = <<n>>
    /\ n \in DOMAIN latest
    /\ Top(1)'.engine_ran

C16_CapsuleScannedOnce ==
    [][\A n \in CapNames :
          EngineRuns(n) =>
             LET data == latest[n]
                 after == Top(1)'
             IN IF data.kind = "capsule"
                THEN IF views[n].consumed
                     THEN after.exc.what = "StreamAlreadyConsumed"
                     ELSE /\ after.exc = NoException
                          /\ after.result.rows = <<data>>
                          /\ views'[n].consumed
                ELSE /\ after.exc = NoException
                     /\ after.result.rows = <<data>>
                     /\ views' = views]_vars

\* a capsule name was queried a second time, and the query failed
C16_Witness ==
    /\ Finished(1)
    /\ outcome[1].op = "execute"
    /\ outcome[1].exc.what = "StreamAlreadyConsumed"
    /\ outcome[1].frame.query = <<"t">>
    /\ "t" \in DOMAIN latest
    /\ latest["t"].kind = "capsule"
    /\ views["t"].consumed

(***************************************************************************)
(* C17  unregister(name) is idempotent.  When it returns it has raised     *)
(* nothing, the name has no entry left on the connection (no view in the   *)
(* engine, no kept capsule, no entry in _holder_factories) and the factory *)
(* handle the name had is destroyed; and an unregister of a name that has  *)
(* no entry (never registered, or unregistered before) changes no state.   *)
(***************************************************************************)
\* thread t returns from a direct call of unregister
UnregisterReturns(t) == ops'[t] # ops[t] /\ outcome'[t].op = "unregister"

\* name has an entry somewhere on the connection
Registered(name) ==
    \/ name \in DOMAIN views
    \/ name \in DOMAIN registered_objects
    \/ name \in DOMAIN holder_factories

C17_UnregisterIdempotent ==
    [][\A t \in Threads :
          UnregisterReturns(t) =>
             LET name == outcome'[t].name IN
             /\ outcome'[t].exc = NoException
             /\ name \notin DOMAIN views'
             /\ name \notin DOMAIN registered_objects'
             /\ name \notin DOMAIN holder_factories'
             /\ name \in DOMAIN holder_factories
                   => factories'[holder_factories[name][1]].deleted = 1
             /\ ~Registered(name)
                   => /\ holder_factories' = holder_factories
                      /\ views' = views
                      /\ factories' = factories
                      /\ registered_objects' = registered_objects]_vars

(***************************************************************************)
(* C18  close() closes every live registration and then the engine handle: *)
(* when close returns the connection is closed, no name has an entry left  *)
(* on it (no view, no kept capsule, no entry in _holder_factories) and     *)
(* every factory handle the connection ever got is destroyed, exactly once.*)
(***************************************************************************)
\* thread t returns from close
CloseReturns(t) == ops'[t] # ops[t] /\ outcome'[t].op = "close"

C18_CloseDestroysRegistrations ==
    [][\A t \in Threads :
          CloseReturns(t) =>
             /\ closed'
             /\ views' = EmptyMap
             /\ registered_objects' = EmptyMap
             /\ holder_factories' = EmptyMap
             /\ \A ptr \in 1..Len(factories') : factories'[ptr].deleted = 1]_vars

(***************************************************************************)
(* C19  register(a, t, replace=true) changes only the entry of name a:     *)
(* every other live name b keeps its entry in _holder_factories (its       *)
(* holder and its factory handle), its view and its factory, and a query   *)
(* on b returns after the call what it returned before, whether the call   *)
(* registered t or raised.                                                 *)
(***************************************************************************)
\* thread t returns from register(..., replace=True)
ReplaceReturns(t) ==
    ops'[t] # ops[t] /\ outcome'[t].op = "register" /\ outcome'[t].replace

C19_ReplaceChangesOnlyItsName ==
    [][\A t \in Threads :
          ReplaceReturns(t) =>
             \A b \in DOMAIN views \ {outcome'[t].name} :
                /\ b \in DOMAIN views'
                /\ views'[b] = views[b]
                /\ b \in DOMAIN holder_factories
                      => /\ b \in DOMAIN holder_factories'
                         /\ holder_factories'[b] = holder_factories[b]
                /\ views[b].kind = "holder"
                      => factories'[views[b].ptr] = factories[views[b].ptr]
                /\ EngineResolve(b, views', factories')
                      = EngineResolve(b, views, factories)]_vars

\* t was registered, u was registered, and t has been replaced: u is as it was
C19_Witness ==
    /\ outcome[1].op = "register"
    /\ outcome[1].replace
    /\ outcome[1].ret
    /\ outcome[1].name = "t"
    /\ Len(factories) = 3
    /\ factories[1].deleted = 1
    /\ "u" \in DOMAIN views
    /\ views["u"] = HolderView(2)
    /\ holder_factories["u"] = <<2, factories[2].holder>>
    /\ factories[2].deleted = 0
    /\ views["t"] = HolderView(3)

(***************************************************************************)
(* C20  The queries of a cursor never change the last result of the parent *)
(* connection, and the queries of the parent never change the cursor's:    *)
(* cursor.execute(q) leaves the parent's _last_result as it was and makes  *)
(* q's result (or, when q fails, no result) the cursor's, and no step of   *)
(* an execute on the parent changes the cursor.                            *)
(***************************************************************************)
\* thread t returns from cursor.execute
CursorExecuteReturns(t) == ops'[t] # ops[t] /\ outcome'[t].op = "cursor_execute"

\* a step of an execute on the parent connection
ParentExecuteStep == stack' # stack

C20_CursorQueryStateIndependent ==
    [][/\ \A t \in Threads :
             CursorExecuteReturns(t) =>
                /\ last_result' = last_result
                /\ cursor'.last_result = outcome'[t].result
                /\ outcome'[t].exc = NoException
                     => outcome'[t].result.rows
                           = [i \in 1..Len(outcome'[t].query) |->
                                 [kind |-> "base", id |-> outcome'[t].query[i]]]
       /\ ParentExecuteStep => cursor' = cursor]_vars

\* parent.execute(b), then cursor.execute(range(5)): each keeps its own result
C20_Witness ==
    /\ cursor # None
    /\ outcome[1].op = "cursor_execute"
    /\ outcome[1].query = <<"range(5)">>
    /\ cursor.last_result # None
    /\ cursor.last_result.rows = << [kind |-> "base", id |-> "range(5)"] >>
    /\ last_result # None
    /\ last_result.rows = << [kind |-> "base", id |-> "b"] >>

(***************************************************************************)
(* C21  On one PolarsLazy holder the unfiltered plan is collected at most  *)
(* once.  A call without pushed filters that finds no cache collects the   *)
(* plan and caches the full, unprojected frame; one that finds the cache   *)
(* collects nothing and answers from it; either returns the frame with the *)
(* call's own projection applied.  A call with pushed filters collects the *)
(* filtered plan and leaves the cache as it was.  A cache, once made, is   *)
(* never changed.  (The call with no projection and no filters only asks   *)
(* for the schema.)                                                        *)
(***************************************************************************)
\* a call on a lazy holder that scans it
LazyScan ==
    /\ StreamReturned
    /\ scan_stream.before.variant = "PolarsLazy"
    /\ ~(IsNone(scan_stream.projected_columns) /\ IsNone(scan_stream.filters))

\* the filters of the call were pushed into the plan
FiltersPushed(call) ==
    /\ Truthy(call.filters)
    /\ TranslateFiltersToPolars(call.filters, Names(call.before.data.schema)) # None

\* the frame with the call's projection applied
Projected(df, projected_columns) ==
    IF IsNone(projected_columns) THEN df ELSE Select(df, projected_columns.items)

C21_LazyPlanCollectedOnce ==
    /\ [](LazyScan =>
            LET call == scan_stream
                before == call.before
            IN IF FiltersPushed(call)
               THEN /\ call.collected = "filtered"
                    /\ scan_holder.cached_df = before.cached_df
               ELSE IF before.cached_df = None
               THEN /\ call.collected = "plan"
                    /\ scan_holder.cached_df = before.data
                    /\ call.result = Projected(before.data, call.projected_columns)
               ELSE /\ call.collected = "cache"
                    /\ scan_holder.cached_df = before.cached_df
                    /\ call.result = Projected(before.cached_df, call.projected_columns))
    /\ [][(scan_holder # None /\ scan_holder.cached_df # None)
             => scan_holder'.cached_df = scan_holder.cached_df]_vars

(***************************************************************************)
(* Registry calls from several threads.  register_table                    *)
(* (dataset/backend.py lines 73-110) takes no lock around lines 92-108, so  *)
(* its statements interleave with those of other threads; unregister       *)
(* (connection_base.py lines 241-254) runs under _DUCKDB_INIT_LOCK.  A scan *)
(* holds the factory of the view it was bound to until it ends.            *)
(***************************************************************************)
RegisterTask(name, data, replace, statsRaise, holder) ==
    [op |-> "register", pc |-> "check", name |-> name, data |-> data,
     replace |-> replace, stats_raised |-> statsRaise, holder |-> holder,
     old |-> None, ptr |-> 0]

RegisterOutcome(tk, exc, ret) ==
    [op |-> "register", exc |-> exc, ret |-> ret, name |-> tk.name, data |-> tk.data,
     replace |-> tk.replace, stats_raised |-> tk.stats_raised]

\* the call thread t is inside, "" when it is inside none
TaskOp(t) == IF task[t] = None THEN "" ELSE task[t].op
InTask(t, op, pc) == TaskOp(t) = op /\ task[t].pc = pc

\* backend.py lines 73-75: get_holder(data); no holder, return False
RegisterBegin(t, name, data, replace, statsRaise, limit) ==
    /\ Idle(t)
    /\ ~closed
    /\ Started < limit
    /\ ops' = [ops EXCEPT ![t] = @ + 1]
    /\ LET holder == HolderFor(name, data, holder_factories)
           tk == RegisterTask(name, data, replace, statsRaise, holder)
       IN IF holder = None
          THEN /\ outcome' = [outcome EXCEPT ![t] = RegisterOutcome(tk, NoException, FALSE)]
               /\ UNCHANGED task
          ELSE /\ task' = [task EXCEPT ![t] = tk]
               /\ UNCHANGED outcome
    /\ UNCHANGED <<holder_factories, registered_objects, views, factories, lock,
                   last_result, udtf_registry, enable_replacement_scan, stack, latest,
                   closed, cursor, registration, init_lock, cursor_lock,
                   hvars>>

\* backend.py line 92: `if replace and name in connection_base._holder_factories`
RegisterCheck(t) ==
    /\ InTask(t, "register", "check")
    /\ task' = [task EXCEPT ![t].pc =
                  IF ReplacesOld(task[t].replace, task[t].name, holder_factories)
                  THEN "pop" ELSE "stats"]
    /\ UNCHANGED <<holder_factories, registered_objects, views, factories, lock,
                   last_result, udtf_registry, enable_replacement_scan, stack, ops,
                   outcome, latest, closed, cursor, registration, init_lock, cursor_lock,
                   hvars>>

\* backend.py line 93: `old_factory_ptr, old_holder = _holder_factories.pop(name)`
RegisterPop(t) ==
    /\ InTask(t, "register", "pop")
    /\ LET tk == task[t] IN
       IF tk.name \in DOMAIN holder_factories
       THEN /\ holder_factories' = MapDel(holder_factories, tk.name)
            /\ task' = [task EXCEPT ![t].pc = "delete",
                                    ![t].old = holder_factories[tk.name]]
            /\ UNCHANGED outcome
       ELSE /\ outcome' = [outcome EXCEPT ![t] =
                   RegisterOutcome(tk, Exception("KeyError", "KeyError", tk.name, ""),
                                   FALSE)]
            /\ task' = [task EXCEPT ![t] = None]
            /\ UNCHANGED holder_factories
    /\ UNCHANGED <<registered_objects, views, factories, lock, last_result,
                   udtf_registry, enable_replacement_scan, stack, ops, latest, closed,
                   cursor, registration, init_lock, cursor_lock,
                   hvars>>

\* backend.py line 94: delete_holder_factory_pyx(conn_impl, old_factory_ptr, old_holder)
RegisterDelete(t) ==
    /\ InTask(t, "register", "delete")
    /\ factories' = EngineDeleteFactory(factories, task[t].old[1])
    /\ task' = [task EXCEPT ![t].pc = "stats"]
    /\ UNCHANGED <<holder_factories, registered_objects, views, lock, last_result,
                   udtf_registry, enable_replacement_scan, stack, ops, outcome, latest,
                   closed, cursor, registration, init_lock, cursor_lock,
                   hvars>>

\* backend.py line 96: holder.compute_statistics(statistics), which may raise
RegisterStats(t) ==
    /\ InTask(t, "register", "stats")
    /\ LET tk == task[t] IN
       IF tk.stats_raised
       THEN /\ outcome' = [outcome EXCEPT ![t] =
                   RegisterOutcome(tk, Exception("ValueError", "InvalidStatisticsColumn",
                                                 tk.name, ""), FALSE)]
            /\ task' = [task EXCEPT ![t] = None]
       ELSE /\ task' = [task EXCEPT ![t].pc = "create"]
            /\ UNCHANGED outcome
    /\ UNCHANGED <<holder_factories, registered_objects, views, factories, lock,
                   last_result, udtf_registry, enable_replacement_scan, stack, ops,
                   latest, closed, cursor, registration, init_lock, cursor_lock,
                   hvars>>

\* backend.py lines 99-106: factory_ptr = register_holder_pyx(...)
RegisterCreate(t) ==
    /\ InTask(t, "register", "create")
    /\ LET tk == task[t]
           e == EngineRegisterHolder([views |-> views, factories |-> factories],
                                     tk.name, tk.holder, tk.replace)
       IN /\ views' = e.views
          /\ factories' = e.factories
          /\ IF e.exc # NoException
             THEN /\ outcome' = [outcome EXCEPT ![t] = RegisterOutcome(tk, e.exc, FALSE)]
                  /\ task' = [task EXCEPT ![t] = None]
             ELSE /\ task' = [task EXCEPT ![t].pc = "store", ![t].ptr = e.ptr]
                  /\ UNCHANGED outcome
    /\ UNCHANGED <<holder_factories, registered_objects, lock, last_result,
                   udtf_registry, enable_replacement_scan, stack, ops, latest, closed,
                   cursor, registration, init_lock, cursor_lock,
                   hvars>>

\* backend.py lines 108-111: `_holder_factories[name] = (factory_ptr, holder)`, return True
RegisterStore(t) ==
    /\ InTask(t, "register", "store")
    /\ LET tk == task[t] IN
          /\ holder_factories' = MapPut(holder_factories, tk.name, <<tk.ptr, tk.holder>>)
          /\ latest' = MapPut(latest, tk.name, tk.data)
          /\ outcome' = [outcome EXCEPT ![t] = RegisterOutcome(tk, NoException, TRUE)]
    /\ task' = [task EXCEPT ![t] = None]
    /\ UNCHANGED <<registered_objects, views, factories, lock, last_result,
                   udtf_registry, enable_replacement_scan, stack, ops, closed, cursor,
                   registration, init_lock, cursor_lock,
                   hvars>>

\* connection_base.py line 249: `with self._DUCKDB_INIT_LOCK`
UnregisterBegin(t, name, limit) ==
    /\ Idle(t)
    /\ ~closed
    /\ Started < limit
    /\ init_lock = 0
    /\ init_lock' = t
    /\ ops' = [ops EXCEPT ![t] = @ + 1]
    /\ task' = [task EXCEPT ![t] = [op |-> "unregister", pc |-> "engine", name |-> name]]
    /\ UNCHANGED <<holder_factories, registered_objects, views, factories, lock,
                   last_result, udtf_registry, enable_replacement_scan, stack, outcome,
                   latest, closed, cursor, registration, cursor_lock,
                   hvars>>

\* connection_base.py line 250: self._impl.unregister(name)
UnregisterEngine(t) ==
    /\ InTask(t, "unregister", "engine")
    /\ views' = EngineUnregister(views, task[t].name)
    /\ task' = [task EXCEPT ![t].pc = "forget"]
    /\ UNCHANGED <<holder_factories, registered_objects, factories, lock, last_result,
                   udtf_registry, enable_replacement_scan, stack, ops, outcome, latest,
                   closed, cursor, registration, init_lock, cursor_lock,
                   hvars>>

\* connection_base.py lines 253-254, and leaving the `with` block
UnregisterForget(t) ==
    /\ InTask(t, "unregister", "forget")
    /\ registered_objects' = MapDel(registered_objects, task[t].name)
    /\ latest' = MapDel(latest, task[t].name)
    /\ outcome' = [outcome EXCEPT ![t] =
            [op |-> "unregister", exc |-> NoException, name |-> task[t].name]]
    /\ init_lock' = 0
    /\ task' = [task EXCEPT ![t] = None]
    /\ UNCHANGED <<holder_factories, views, factories, lock, last_result,
                   udtf_registry, enable_replacement_scan, stack, ops, closed, cursor,
                   registration, cursor_lock,
                   hvars>>

\* a query starts scanning `name`: the engine binds the scan to the view's factory
ScanBegin(t, name) ==
    /\ Idle(t)
    /\ ~closed
    /\ name \in DOMAIN views
    /\ views[name].kind = "holder"
    /\ \A u \in Threads : TaskOp(u) # "scan"
    /\ task' = [task EXCEPT ![t] =
                  [op |-> "scan", pc |-> "scan", name |-> name, ptr |-> views[name].ptr]]
    /\ UNCHANGED <<holder_factories, registered_objects, views, factories, lock,
                   last_result, udtf_registry, enable_replacement_scan, stack, ops,
                   outcome, latest, closed, cursor, registration, init_lock, cursor_lock,
                   hvars>>

\* the scan reads its last batch, from a factory that may have been destroyed
ScanEnd(t) ==
    /\ InTask(t, "scan", "scan")
    /\ task' = [task EXCEPT ![t] = None]
    /\ outcome' = [outcome EXCEPT ![t] =
            [op |-> "scan", name |-> task[t].name, ptr |-> task[t].ptr,
             exc |-> IF factories[task[t].ptr].deleted > 0
                     THEN Exception("RuntimeError", "DanglingFactory", task[t].name, "")
                     ELSE NoException]]
    /\ UNCHANGED <<holder_factories, registered_objects, views, factories, lock,
                   last_result, udtf_registry, enable_replacement_scan, stack, ops,
                   latest, closed, cursor, registration, init_lock, cursor_lock,
                   hvars>>

RaceNames == {"t"}
RaceData == {TableA, TableB, NonArrow("x")}

RaceInit == Fresh(EmptyMap, FALSE)

RaceNext ==
    \/ \E t \in Threads, name \in RaceNames, data \in RaceData, statsRaise \in BOOLEAN :
          RegisterBegin(t, name, data, TRUE, statsRaise, MaxRegOps)
    \/ \E t \in Threads : RegisterCheck(t)
    \/ \E t \in Threads : RegisterPop(t)
    \/ \E t \in Threads : RegisterDelete(t)
    \/ \E t \in Threads : RegisterStats(t)
    \/ \E t \in Threads : RegisterCreate(t)
    \/ \E t \in Threads : RegisterStore(t)
    \/ \E t \in Threads, name \in RaceNames : UnregisterBegin(t, name, MaxRegOps)
    \/ \E t \in Threads : UnregisterEngine(t)
    \/ \E t \in Threads : UnregisterForget(t)
    \/ \E t \in Threads, name \in RaceNames : ScanBegin(t, name)
    \/ \E t \in Threads : ScanEnd(t)

RaceSpec == RaceInit /\ [][RaceNext]_vars

\* backend.py lines 93-94 against 99-108: the factory a step of register_table
\* destroys is not the one the registry holds for the name after that step
DestroysOnlyReplaced(t) ==
    (InTask(t, "register", "delete") /\ factories' # factories) =>
        LET name == task[t].name
            ptr == task[t].old[1]
        IN /\ name \in DOMAIN holder_factories'
           /\ holder_factories'[name][1] # ptr
           /\ factories'[holder_factories'[name][1]].deleted = 0
           /\ views'[name] = HolderView(holder_factories'[name][1])

\* the factory of every holder view, and of every scan in flight, is not destroyed
ScansSeeLiveFactory ==
    /\ \A n \in DOMAIN views :
          views[n].kind = "holder" => factories[views[n].ptr].deleted = 0
    /\ \A t \in Threads :
          TaskOp(t) = "scan" => factories[task[t].ptr].deleted = 0

\* C22: during register(name, new, replace=True) the old factory is destroyed only
\* after the new factory has been created and stored in the registry, so the
\* factory behind every view of a name, and behind every scan in flight, has not
\* been destroyed.
C22_OldFactoryOutlivesReplace ==
    /\ []ScansSeeLiveFactory
    /\ [][\A t \in Threads : DestroysOnlyReplaced(t)]_vars

\* no thread is inside a registry call
Quiescent == \A t \in Threads : task[t] = None

\* the factory handles the registry refers to
Referenced == {holder_factories[n][1] : n \in DOMAIN holder_factories}

\* C24: registry operations on one connection are serialized: once concurrent
\* register(name, ., replace=True) and unregister(name) calls have all returned,
\* every entry of the registry has a factory that is not destroyed, every factory
\* the registry no longer refers to has been destroyed exactly once, and no call
\* failed on the registry's dictionary.
C24_RegistryOperationsSerialized ==
    Quiescent =>
        /\ \A n \in DOMAIN holder_factories :
              factories[holder_factories[n][1]].deleted = 0
        /\ \A ptr \in DOMAIN factories :
              ptr \notin Referenced => factories[ptr].deleted = 1
        /\ \A t \in Threads :
              outcome[t].op = "register" => outcome[t].exc.kind # "KeyError"

(***************************************************************************)
(* TableRegistration (src/bareduckdb/core/registration.py): the object     *)
(* that owns one factory handle.  close() is called by unregister and by   *)
(* replace, by __exit__ and by __del__, from any thread.                   *)
(***************************************************************************)
\* TableRegistration.__init__ (lines 24-30); conn_alive: what the weak reference
\* to the connection gives when it is called
TableRegistration(name, factory_ptr, data, conn_alive) ==
    [name |-> name, factory_ptr |-> factory_ptr, data |-> data,
     conn_alive |-> conn_alive, closed |-> FALSE, close_lock |-> 0, log |-> 0]

\* line 45: `with self._close_lock` (a threading.Lock) can be entered
CloseLockFreeMutant(l) == TRUE
CloseLockFree(l) == l = 0

\* what a close leaves behind, apart from the lock
CloseEffects == <<registration.closed, registration.factory_ptr, registration.data,
                  registration.log, factories>>

CloseOutcome(tk, ran) ==
    [op |-> "close", via |-> tk.via, exc |-> NoException, ran |-> ran,
     failed |-> tk.failed]

\* close() (line 44), __exit__ (lines 71-73) and __del__ (lines 64-66) are entered
CloseCall(t, via, limit) ==
    /\ Idle(t)
    /\ Started < limit
    /\ ops' = [ops EXCEPT ![t] = @ + 1]
    /\ LET tk == [op |-> "close", pc |-> "acquire", via |-> via, failed |-> FALSE] IN
       IF via = "del" /\ registration.closed
       THEN /\ outcome' = [outcome EXCEPT ![t] = CloseOutcome(tk, FALSE)]
            /\ UNCHANGED task
       ELSE /\ task' = [task EXCEPT ![t] = tk]
            /\ UNCHANGED outcome
    /\ UNCHANGED <<holder_factories, registered_objects, views, factories, lock,
                   last_result, udtf_registry, enable_replacement_scan, stack, latest,
                   closed, cursor, registration, init_lock, cursor_lock,
                   hvars>>

\* line 45: the close lock is taken
CloseAcquire(t) ==
    /\ InTask(t, "close", "acquire")
    /\ CloseLockFree(registration.close_lock)
    /\ registration' = [registration EXCEPT !.close_lock = t]
    /\ task' = [task EXCEPT ![t].pc = "check"]
    /\ UNCHANGED <<holder_factories, registered_objects, views, factories, lock,
                   last_result, udtf_registry, enable_replacement_scan, stack, ops,
                   outcome, latest, closed, cursor, init_lock, cursor_lock,
                   hvars>>

\* lines 46-48: a closed registration returns, an open one is marked closed
CloseCheck(t) ==
    /\ InTask(t, "close", "check")
    /\ IF registration.closed
       THEN /\ registration' = [registration EXCEPT !.close_lock = 0]
            /\ outcome' = [outcome EXCEPT ![t] = CloseOutcome(task[t], TRUE)]
            /\ task' = [task EXCEPT ![t] = None]
       ELSE /\ registration' = [registration EXCEPT !.closed = TRUE]
            /\ task' = [task EXCEPT ![t].pc = "destroy"]
            /\ UNCHANGED outcome
    /\ UNCHANGED <<holder_factories, registered_objects, views, factories, lock,
                   last_result, udtf_registry, enable_replacement_scan, stack, ops,
                   latest, closed, cursor, init_lock, cursor_lock,
                   hvars>>

\* lines 50-60: the destructor, through the connection if it is still alive; an
\* exception of the destructor is logged; the handle is cleared
CloseDestroy(t, fails) ==
    /\ InTask(t, "close", "destroy")
    /\ LET calls == registration.factory_ptr # 0 /\ registration.conn_alive IN
          /\ fails => calls
          /\ factories' = IF calls
                          THEN EngineDeleteFactory(factories, registration.factory_ptr)
                          ELSE factories
          /\ registration' = [registration EXCEPT
                                 !.log = IF fails THEN @ + 1 ELSE @,
                                 !.factory_ptr = 0]
          /\ task' = [task EXCEPT ![t].pc = "release", ![t].failed = fails]
    /\ UNCHANGED <<holder_factories, registered_objects, views, lock, last_result,
                   udtf_registry, enable_replacement_scan, stack, ops, outcome, latest,
                   closed, cursor, init_lock, cursor_lock,
                   hvars>>

\* line 62, and leaving the `with` block
CloseRelease(t) ==
    /\ InTask(t, "close", "release")
    /\ registration' = [registration EXCEPT !.data = None, !.close_lock = 0]
    /\ outcome' = [outcome EXCEPT ![t] = CloseOutcome(task[t], TRUE)]
    /\ task' = [task EXCEPT ![t] = None]
    /\ UNCHANGED <<holder_factories, registered_objects, views, factories, lock,
                   last_result, udtf_registry, enable_replacement_scan, stack, ops,
                   latest, closed, cursor, init_lock, cursor_lock,
                   hvars>>

CloseCallers == {"close", "exit", "del"}

\* a registration of table A under name t, with or without a factory handle
RegistrationInit ==
    /\ holder_factories = EmptyMap
    /\ registered_objects = EmptyMap
    /\ views = EmptyMap
    /\ factories = <<[holder |-> TableA, deleted |-> 0]>>
    /\ lock = 0
    /\ last_result = None
    /\ udtf_registry = EmptyMap
    /\ enable_replacement_scan = FALSE
    /\ stack = [t \in Threads |-> <<>>]
    /\ ops = [t \in Threads |-> 0]
    /\ outcome = [t \in Threads |-> NoOutcome]
    /\ latest = EmptyMap
    /\ closed = FALSE
    /\ cursor = None
    /\ task = [t \in Threads |-> None]
    /\ init_lock = 0
    /\ cursor_lock = 0
    /\ scan_holder = None
    /\ scan_stream = None
    /\ \E ptr \in {0, 1}, alive \in BOOLEAN :
          registration = TableRegistration("t", ptr, TableA, alive)

RegistrationNext ==
    \/ \E t \in Threads, via \in CloseCallers : CloseCall(t, via, MaxRegOps)
    \/ \E t \in Threads : CloseAcquire(t)
    \/ \E t \in Threads : CloseCheck(t)
    \/ \E t \in Threads, fails \in BOOLEAN : CloseDestroy(t, fails)
    \/ \E t \in Threads : CloseRelease(t)

RegistrationSpec == RegistrationInit /\ [][RegistrationNext]_vars

\* a close() call of thread t has returned
CloseReturned(t) == outcome[t].op = "close" /\ outcome[t].ran

\* C23: however close() calls on one registration interleave, the factory
\* destructor runs at most once for its handle, a close that finds the registration
\* closed changes nothing, no close raises, a failure of the destructor is logged,
\* and once a close has returned the registration is closed with its handle
\* cleared and its data released.
C23_CloseOnceUnderRaces ==
    /\ [](/\ \A p \in DOMAIN factories : factories[p].deleted <= 1
          /\ \A t \in Threads :
                CloseReturned(t) =>
                   /\ outcome[t].exc = NoException
                   /\ outcome[t].failed => registration.log >= 1
                   /\ registration.closed
                   /\ registration.factory_ptr = 0
                   /\ registration.data = None)
    /\ [][\A t \in Threads :
            (InTask(t, "close", "check") /\ registration.closed /\ task'[t] # task[t])
               => CloseEffects' = CloseEffects]_vars
    /\ [][registration.closed => registration'.closed]_vars

\* two close() calls have returned, and the destructor of the first one failed
C23_Witness ==
    /\ \A t \in Threads : CloseReturned(t)
    /\ \E t \in Threads : outcome[t].failed
    /\ factories[1].deleted = 1
    /\ registration.log = 1

(***************************************************************************)
(* Replacement scan over a caller with two frames.                         *)
(***************************************************************************)
\* what a frame may bind the name t to: nothing, an Arrow table, another object
FrameBindings(id) ==
    {EmptyMap, [n \in {"t"} |-> ArrowTable(id)], [n \in {"t"} |-> NonArrow(id)]}

\* the caller's frames, the calling function first and its own caller second
ScanScopes ==
    { << [locals |-> inner, globals |-> EmptyMap],
         [locals |-> outer, globals |-> EmptyMap] >> :
         inner \in FrameBindings("I"), outer \in FrameBindings("O") }

ScanQueries == { <<"t">>, <<"t", "b">>, <<"b">> }

ScanInit == \E ers \in BOOLEAN : Fresh(EmptyMap, ers)

ScanNext ==
    \/ \E q \in ScanQueries, sc \in ScanScopes : ExecuteBegin(1, q, <<>>, sc, MaxOps)
    \/ PreprocessFast(1)
    \/ PreprocessParse(1)
    \/ PreprocessScan(1)
    \/ UdtfNone(1)
    \/ CallAcquire(1)
    \/ CallEngine(1)
    \/ CallRegister(1)
    \/ CallUnregister(1)
    \/ CallReturn(1)

ScanSpec == ScanInit /\ [][ScanNext]_vars

\* the first binding of `name`, from the caller outward, that has the Arrow stream
\* capability; None when no frame has one
RECURSIVE FirstArrowBinding(_, _)
FirstArrowBinding(name, frames) ==
    IF Len(frames) = 0 THEN None
    ELSE LET fr == frames[1] IN
         IF name \in DOMAIN fr.locals /\ HasArrowStream(fr.locals[name])
         THEN fr.locals[name]
         ELSE IF name \in DOMAIN fr.globals /\ HasArrowStream(fr.globals[name])
         THEN fr.globals[name]
         ELSE FirstArrowBinding(name, Tail(frames))

\* C25: with the replacement scan enabled, a referenced name that is neither an
\* engine table nor in the caller's data is bound to the first binding of that
\* name, from the caller's frame outward, that has the Arrow stream capability,
\* and is left unbound only when no frame has such a binding.
C25_FirstArrowBindingAdopted ==
    \A t \in Threads :
        (Finished(t) /\ outcome[t].frame.pc = "done" /\ enable_replacement_scan)
        => LET fr == outcome[t].frame IN
           \A n \in SeqToSet(fr.query0) \ (BaseTables \cup DictKeys(fr.data0)) :
              LET binding == FirstArrowBinding(n, fr.scope) IN
              IF binding = None
              THEN n \notin DictKeys(fr.data)
              ELSE n \in DictKeys(fr.data) /\ DictGet(fr.data, n) = binding

\* C26: in the rewritten SQL the i-th call of a registered UDTF is replaced by the
\* i-th transient name generated, every transient name occurs in the rewritten
\* SQL exactly once, no text of a registered-UDTF call remains, and every other
\* item (a table, a call of a function that is not registered) is unchanged.
C26_CallSitesRewritten ==
    \A t \in Threads :
        (/\ Finished(t)
         /\ outcome[t].frame.pc = "done"
         /\ DOMAIN udtf_registry # {}
         /\ outcome[t].exc.what # "UdtfExecutionFailed"
         /\ "??" \notin SeqToSet(outcome[t].frame.query0))
        => LET fr == outcome[t].frame
               written == fr.query0
               rewritten == fr.query
               isUdtf(j) == /\ IsCall(written[j])
                            /\ FormOf(written[j]).name \in DOMAIN udtf_registry
               rank(j) == Cardinality({k \in 1..j : isUdtf(k)})
           IN /\ Len(rewritten) = Len(written)
              /\ Len(fr.gen) = rank(Len(written))
              /\ \A j \in 1..Len(written) :
                    IF isUdtf(j) THEN rewritten[j] = fr.gen[rank(j)]
                    ELSE rewritten[j] = written[j]
              /\ \A g \in SeqToSet(fr.gen) :
                    Cardinality({j \in 1..Len(rewritten) : rewritten[j] = g}) = 1

(***************************************************************************)
(* The locks and the order in which each entry point takes them.  A path   *)
(* is the sequence of lock events of one call, in program order.           *)
(***************************************************************************)
Connections == {"parent", "cursor"}

QueryLock(conn) == [lock |-> "query", conn |-> conn]     \* self._lock
InitLock == [lock |-> "init", conn |-> ""]                \* _DUCKDB_INIT_LOCK
CloseLock == [lock |-> "close", conn |-> ""]              \* registration._close_lock

Acq(l) == [ev |-> "acquire", l |-> l]
Rel(l) == [ev |-> "release", l |-> l]

\* ConnectionBase.unregister (lines 249-254): the engine-init lock around the body
UnregisterPath == <<Acq(InitLock), Rel(InitLock)>>

\* ConnectionBase.close (lines 258-260)
ClosePath == <<Acq(InitLock), Rel(InitLock)>>

\* ConnectionBase._call (lines 186-239) with data: the query lock around the whole
\* body, and unregister called for each name in the `finally` block
CallPath(conn, names) ==
    <<Acq(QueryLock(conn))>>
    \o (IF names > 0 THEN UnregisterPath ELSE <<>>)
    \o <<Rel(QueryLock(conn))>>

\* ConnectionBase.__init__ (lines 81-95): the engine handle is made under the
\* engine-init lock, and init_sql runs through _call after the block has ended
InitPathMutant(conn) ==
    <<Acq(InitLock)>> \o CallPath(conn, 0) \o <<Rel(InitLock)>>
InitPath(conn) ==
    <<Acq(InitLock), Rel(InitLock)>> \o CallPath(conn, 0)

\* TableRegistration.close (registration.py lines 44-62)
RegistrationClosePath == <<Acq(CloseLock), Rel(CloseLock)>>

\* register_table with replace (src/bareduckdb/dataset/backend.py lines 70-80): the
\* old registration is closed inside the engine-init lock
ReplacePath == <<Acq(InitLock)>> \o RegistrationClosePath \o <<Rel(InitLock)>>

EntryPoints == {"init", "execute", "execute_data", "register", "unregister", "close",
                "registration_close"}

PathOf(entry, conn) ==
    CASE entry = "init" -> InitPath(conn)
      [] entry = "execute" -> CallPath(conn, 0)
      [] entry = "execute_data" -> CallPath(conn, 1)
      [] entry = "register" -> ReplacePath
      [] entry = "unregister" -> UnregisterPath
      [] entry = "close" -> ClosePath
      [] entry = "registration_close" -> RegistrationClosePath

\* the thread holding lock l, 0 when it is free
HolderOf(l) ==
    CASE l.lock = "query" /\ l.conn = "parent" -> lock
      [] l.lock = "query" /\ l.conn = "cursor" -> cursor_lock
      [] l.lock = "init" -> init_lock
      [] l.lock = "close" -> registration.close_lock

\* lock l passes to holder h (0: it is released)
SetHolder(l, h) ==
    /\ lock' = IF l = QueryLock("parent") THEN h ELSE lock
    /\ cursor_lock' = IF l = QueryLock("cursor") THEN h ELSE cursor_lock
    /\ init_lock' = IF l = InitLock THEN h ELSE init_lock
    /\ registration' = IF l = CloseLock THEN [registration EXCEPT !.close_lock = h]
                       ELSE registration

\* the lock event thread t is at
NextEvent(t) == task[t].path[task[t].pc]
AtEvent(t, ev) ==
    /\ TaskOp(t) = "locks"
    /\ task[t].pc <= Len(task[t].path)
    /\ NextEvent(t).ev = ev

\* a call of an entry point starts
LockCall(t, entry, conn, limit) ==
    /\ Idle(t)
    /\ Started < limit
    /\ ops' = [ops EXCEPT ![t] = @ + 1]
    /\ task' = [task EXCEPT ![t] =
                  [op |-> "locks", entry |-> entry, conn |-> conn, pc |-> 1,
                   path |-> PathOf(entry, conn), held |-> <<>>]]
    /\ UNCHANGED <<holder_factories, registered_objects, views, factories, lock,
                   last_result, udtf_registry, enable_replacement_scan, stack, outcome,
                   latest, closed, cursor, registration, init_lock, cursor_lock,
                   hvars>>

\* `with <lock>:` is entered; the thread waits while another thread holds the lock
LockAcquire(t) ==
    /\ AtEvent(t, "acquire")
    /\ HolderOf(NextEvent(t).l) = 0
    /\ SetHolder(NextEvent(t).l, t)
    /\ task' = [task EXCEPT ![t].pc = @ + 1,
                            ![t].held = Append(@, NextEvent(t).l)]
    /\ UNCHANGED <<holder_factories, registered_objects, views, factories,
                   last_result, udtf_registry, enable_replacement_scan, stack, ops,
                   outcome, latest, closed, cursor, hvars>>

\* the `with` block is left
LockRelease(t) ==
    /\ AtEvent(t, "release")
    /\ SetHolder(NextEvent(t).l, 0)
    /\ task' = [task EXCEPT ![t].pc = @ + 1,
                            ![t].held = SubSeq(@, 1, Len(@) - 1)]
    /\ UNCHANGED <<holder_factories, registered_objects, views, factories,
                   last_result, udtf_registry, enable_replacement_scan, stack, ops,
                   outcome, latest, closed, cursor, hvars>>

\* the call returns
LockReturn(t) ==
    /\ TaskOp(t) = "locks"
    /\ task[t].pc > Len(task[t].path)
    /\ outcome' = [outcome EXCEPT ![t] =
            [op |-> "locks", entry |-> task[t].entry, exc |-> NoException]]
    /\ task' = [task EXCEPT ![t] = None]
    /\ UNCHANGED <<holder_factories, registered_objects, views, factories, lock,
                   last_result, udtf_registry, enable_replacement_scan, stack, ops,
                   latest, closed, cursor, registration, init_lock, cursor_lock,
                   hvars>>

LockNext ==
    \/ \E t \in Threads, entry \in EntryPoints, conn \in Connections :
          LockCall(t, entry, conn, MaxOps)
    \/ \E t \in Threads : LockAcquire(t)
    \/ \E t \in Threads : LockRelease(t)
    \/ \E t \in Threads : LockReturn(t)

LockSpec == RegistrationInit /\ [][LockNext]_vars

\* the place of a lock in the order query lock, engine-init lock, close lock
LockRank(l) == CASE l.lock = "query" -> 1 [] l.lock = "init" -> 2 [] l.lock = "close" -> 3

\* thread t waits for a lock another thread holds
Waiting(t) == AtEvent(t, "acquire") /\ HolderOf(NextEvent(t).l) # 0

\* C27: no thread waits for, or takes, a connection query lock while it holds the
\* engine-init lock; a thread takes locks only in the order query lock, engine-init
\* lock, close lock; and the threads inside execute, register, unregister and
\* close calls are never all waiting for locks held by one another.
C27_LockOrderNoDeadlock ==
    /\ \A t \in Threads :
          AtEvent(t, "acquire") =>
             \A i \in 1..Len(task[t].held) :
                LockRank(task[t].held[i]) < LockRank(NextEvent(t).l)
    /\ \A t \in Threads :
          (AtEvent(t, "acquire") /\ NextEvent(t).l.lock = "query") =>
             \A i \in 1..Len(task[t].held) : task[t].held[i] # InitLock
    /\ (\E t \in Threads : TaskOp(t) = "locks") =>
          (\E t \in Threads : TaskOp(t) = "locks" /\ ~Waiting(t))

\* one thread, inside execute with data, holds the query lock and waits for the
\* engine-init lock, which a thread replacing a registration holds together with
\* the close lock
C27_Witness ==
    \E t, u \in Threads :
        /\ TaskOp(t) = "locks" /\ task[t].entry = "execute_data"
        /\ task[t].held = <<QueryLock(task[t].conn)>>
        /\ Waiting(t)
        /\ TaskOp(u) = "locks" /\ task[u].entry = "register"
        /\ task[u].held = <<InitLock, CloseLock>>

\* the engine's verdict on one filter of a map for a row: a StructExtract is its
\* child filter on the struct's child, an Optional or Dynamic filter rejects no row
\* of a scan, a filter on a column the holder does not have constrains no row
EngineAccepts(filter_info, idx, schema, row) ==
    IF idx >= Len(schema) THEN TRUE
    ELSE LET v == row[schema[idx + 1].name] IN
         CASE filter_info.type = STRUCT_EXTRACT ->
                 SqlEval(filter_info.child_filter, v[filter_info.child_idx + 1]) = "T"
           [] filter_info.type \in {OPTIONAL_FILTER, DYNAMIC_FILTER} -> TRUE
           [] OTHER -> SqlEval(filter_info, v) = "T"

\* the rows of a frame the query should return
QueryRows(rows, filters, schema) ==
    SelectSeq(rows,
              LAMBDA row : Truthy(filters) =>
                              \A i \in 1..Len(filters.items) :
                                 EngineAccepts(filters.items[i][2], filters.items[i][1],
                                               schema, row))

\* C28: the predicate a holder builds from a filter map is never stricter than the
\* engine's filters: every row of the holder that satisfies all filters of the map
\* is in the stream produce_filtered returns, whatever the kinds, column indexes
\* and column types of the filters.
C28_PushdownNeverStricter ==
    (/\ StreamReturned
     /\ IsNone(scan_stream.projected_columns)
     /\ ~IsNone(scan_stream.filters)) =>
        QueryRows(scan_stream.result.rows, scan_stream.filters,
                  scan_stream.before.data.schema)
            = QueryRows(scan_stream.before.data.rows, scan_stream.filters,
                        scan_stream.before.data.schema)

\* C29: when register(name, source, statistics=<list>, replace=True) raises, for a
\* listed column the source does not have or a holder the engine cannot create,
\* the registration the name had before is unchanged: its entry is in the
\* registry, its factory has not been destroyed, and a query on the name gets what
\* it got before.
C29_FailedReplaceKeepsOld ==
    [][\A t \in Threads :
          (/\ ReplaceReturns(t)
           /\ outcome'[t].exc # NoException
           /\ outcome'[t].name \in DOMAIN holder_factories
           /\ outcome'[t].name \in DOMAIN views
           /\ factories[holder_factories[outcome'[t].name][1]].deleted = 0)
          => LET name == outcome'[t].name IN
             /\ name \in DOMAIN holder_factories'
             /\ holder_factories'[name] = holder_factories[name]
             /\ factories'[holder_factories[name][1]].deleted = 0
             /\ EngineResolve(name, views', factories')
                   = EngineResolve(name, views, factories)]_vars

(***************************************************************************)
(* Per-query data over persistent registrations: one caller registers      *)
(* tables under t and u and runs queries whose extra data names them.      *)
(***************************************************************************)
DataNames == {"t", "u"}
DataQueries == { <<"t">>, <<"u">>, <<"t", "u">>, <<"nope">> }
DataExtraData ==
    { <<>>, << <<"u", TableB>> >>, << <<"t", TableB>>, <<"u", TableB>> >>,
      << <<"t", NonArrow("o")>>, <<"u", TableB>> >> }

DataInit == Fresh(EmptyMap, FALSE)

DataNext ==
    \/ \E n \in DataNames : Register(1, n, TableA, TRUE, FALSE, MaxRegOps)
    \/ \E q \in DataQueries, d \in DataExtraData : ExecuteBegin(1, q, d, <<>>, MaxRegOps)
    \/ PreprocessFast(1)
    \/ CallStep(1)

DataSpec == DataInit /\ [][DataNext]_vars

\* execute returns to thread t's caller, or raises, in this step
ExecuteEnds(t) == Depth(t) = 1 /\ stack'[t] = <<>>

\* a query on the name fails as an unknown table
UnknownTable(name, vs, fs) == EngineResolve(name, vs, fs).exc.what = "UnknownTable"

\* the registration of name b is what it was before the step: the same view over
\* the same source, with its factory not destroyed
SameRegistration(b) ==
    /\ b \in DOMAIN views'
    /\ views'[b].kind = views[b].kind
    /\ views'[b].ptr = views[b].ptr
    /\ views'[b].obj = views[b].obj
    /\ views[b].kind = "holder" => factories'[views[b].ptr] = factories[views[b].ptr]

====
